---- MODULE Spec2Model ----
(***************************************************************************)
(* Model of the huddle-up server: the Socket.IO gateway (server/index.js), *)
(* the REST controllers for messages, channels, teams and auth, and the    *)
(* tables they read and write.  Every `await` of a handler is one step of  *)
(* the model, so handlers of different requests interleave exactly where   *)
(* the event loop lets them.                                               *)
(***************************************************************************)
EXTENDS Integers, Sequences, FiniteSets, TLC

\* ------------------------------------------------------------------ bounds
MaxWrites == 4          \* presence writes issued in one run
MaxOps == 2             \* requests (socket events, REST calls) issued in one run
MaxCloseOps == 1        \* the same, in the runs in which connections close
MaxInflight == 2        \* handlers suspended at an await at the same time
MaxMsgs == 2            \* message rows created in one run
HistoryMsgs == 3        \* message rows of the channel whose history is read
MaxPage == 3            \* largest page number a client asks for
MaxLimit == 2           \* largest page size a client asks for

\* The validator of Message.content: len [1, 4000].
MinContentLen == 1
MaxContentLen == 4000

\* ------------------------------------------------------------ the universe
Users == {"alice", "bob"}
Conns == {"k1", "k2", "k3"}
Teams == {"t1"}
ChannelIds == {"general", "random"}
TeamIdInputs == {"t1", "tX"}    \* what a client may send in join-teams

\* The identity each client's token resolves to (jwt.verify + User.findByPk).
TokenUser == [k \in Conns |-> IF k = "k2" THEN "bob" ELSE "alice"]

NoMsgId == 0
NoUser == "nobody"
NoChannel == "nochannel"
Rest == "rest"                  \* the origin of a handler run over HTTP

VARIABLES
    users,          \* users table: [isOnline, lastSeen] per user (lastSeen 0 = NULL)
    pending,        \* presence writes (User.update) issued and not yet executed
    nWrites,        \* logical clock of presence writes: new Date() at issue
    lastIssued,     \* per user, the handler that issued the latest presence write
    connected,      \* sockets of the namespace (io.sockets)
    rooms,          \* adapter rooms: room key -> set of socket ids
    teams,          \* teams table: [ownerId, inviteCode] per team (code 0 = NULL)
    teamMembers,    \* team_members rows: <<user, team, role>>
    channels,       \* channels table: [teamId, name, isPrivate, lastMessageId]
    channelMembers, \* channel_members rows: <<user, channel>>
    messages,       \* messages table: set of rows
    reactions,      \* message_reactions rows: <<user, message id, emoji>>
    nextMsgId,      \* id (= commit rank) of the next row Message.create inserts
    ops,            \* handlers in flight, by slot
    budget,         \* requests the clients may still issue in this run
    lastReq,        \* the request that arrived last
    inbox,          \* per connection, the events the server has emitted to it
    lastReply       \* the latest HTTP response sent

vars == <<users, pending, nWrites, lastIssued, connected, rooms, teams,
          teamMembers, channels, channelMembers, messages, reactions, nextMsgId,
          ops, budget, lastReq, inbox, lastReply>>

reqVars == <<budget, lastReq>>
presenceVars == <<users, pending, nWrites, lastIssued>>
dbVars == <<teams, teamMembers, channels, channelMembers, messages, reactions,
           nextMsgId>>
membershipVars == <<teams, teamMembers, channels, channelMembers>>

\* ------------------------------------------------------------------ rooms
ChannelRoom(ch) == <<"channel", ch>>
TeamRoom(t) == <<"team", t>>
RoomKeys == {ChannelRoom(ch) : ch \in ChannelIds} \cup {TeamRoom(t) : t \in TeamIdInputs}

\* socket.join(room): the adapter adds the socket id, connected or not.
SocketJoin(rm, c, r) == [rm EXCEPT ![r] = @ \cup {c}]
\* socket.leave(room)
SocketLeave(rm, c, r) == [rm EXCEPT ![r] = @ \ {c}]
\* What Socket.IO does to the rooms when a socket closes: it leaves them all.
LeaveAll(rm, c) == [r \in RoomKeys |-> rm[r] \ {c}]

\* The sockets an emit to a room reaches: the adapter skips ids that are no
\* longer sockets of the namespace.
Audience(r) == rooms[r] \cap connected

\* ---------------------------------------------------------------- presence
PresenceWrite(u, online, stamp, src) ==
    [seq |-> nWrites + 1, user |-> u, isOnline |-> online,
     lastSeen |-> IF stamp THEN nWrites + 1 ELSE 0, src |-> src]

IssuePresence(u, online, stamp, src) ==
    /\ nWrites < MaxWrites
    /\ pending' = pending \cup {PresenceWrite(u, online, stamp, src)}
    /\ nWrites' = nWrites + 1
    /\ lastIssued' = [lastIssued EXCEPT ![u] = src]
    /\ UNCHANGED users

OpenConns(u) == {c \in connected : TokenUser[c] = u}
PendingOf(u) == {w \in pending : w.user = u}

\* A presence write reaches the database: writes of one pool are not ordered.
PresenceCommit(w) ==
    /\ w \in pending
    /\ users' = [users EXCEPT ![w.user] =
                    [isOnline |-> w.isOnline,
                     lastSeen |-> IF w.lastSeen = 0 THEN @.lastSeen ELSE w.lastSeen]]
    /\ pending' = pending \ {w}
    /\ UNCHANGED <<nWrites, lastIssued>>

\* ------------------------------------------------------- message contents
\* A content is known by its length and by whether it is only whitespace.
Content(n, b) == [len |-> n, blank |-> b]
NoContent == Content(0, TRUE)
Hi == Content(2, FALSE)
HiThere == Content(8, FALSE)
TooLong == Content(MaxContentLen + 1, FALSE)
Spaces == Content(3, TRUE)
PostInputs == {Hi, TooLong}          \* what clients post
EditInputs == {HiThere, NoContent}    \* what clients edit to
ContentInputs == {Hi, Spaces, NoContent, TooLong}

\* validate: { len: [1, 4000] } on Message.content
ValidContent(x) == x.len >= MinContentLen /\ x.len <= MaxContentLen

\* ------------------------------------------------------------- the tables
\* A channel name is known by its text after the marker and by whether it
\* starts with the marker '#'.
ChannelName(text) == [marked |-> FALSE, text |-> text]
\* hooks.beforeSave of Channel: the name is given the marker if it has none.
BeforeSave(name) == [name EXCEPT !.marked = TRUE]

NullMsg == [id |-> NoMsgId, senderId |-> NoUser, channelId |-> NoChannel,
            teamId |-> "noteam", content |-> NoContent, editedAt |-> 0]

Row(id) == IF \E m \in messages : m.id = id
           THEN CHOOSE m \in messages : m.id = id
           ELSE NullMsg

\* ChannelMember.findOne({ where: { channelId, userId } })
IsChannelMemberMutantCached(u, ch) ==
    \E c \in rooms[ChannelRoom(ch)] : TokenUser[c] = u
IsChannelMemberMutantTeam(u, ch) ==
    \E m \in teamMembers : m[1] = u /\ m[2] = channels[ch].teamId
IsChannelMemberMutantPublic(u, ch) ==
    <<u, ch>> \in channelMembers \/ ~channels[ch].isPrivate
IsChannelMember(u, ch) == <<u, ch>> \in channelMembers

\* Message.findOne({ where: { id, senderId } })
FindOwnMutantAnySender(id, u) == Row(id)
FindOwn(id, u) == IF Row(id).senderId = u THEN Row(id) ELSE NullMsg

\* Message.findByPk(id, { include: sender })
Populated(id) ==
    [msg |-> Row(id),
     sender |-> IF Row(id) = NullMsg THEN NoUser ELSE Row(id).senderId]

\* ------------------------------------------------------------------ events
Event(type, payload, text) == [type |-> type, data |-> payload, message |-> text]
NoPayload == [msg |-> NullMsg, sender |-> NoUser]
IdPayload(id) == [msg |-> [NullMsg EXCEPT !.id = id], sender |-> NoUser]
ErrorEvent(text) == Event("error", NoPayload, text)

\* io.to(room).emit(type, payload)
EmitToRoom(r, e) ==
    inbox' = [c \in Conns |-> IF c \in Audience(r) THEN Append(inbox[c], e) ELSE inbox[c]]

\* socket.emit(type, payload): a closed socket drops the packet.
EmitToSocketMutantRoom(c, e) ==
    inbox' = [d \in Conns |-> IF d \in connected THEN Append(inbox[d], e) ELSE inbox[d]]
EmitToSocket(c, e) ==
    inbox' = [d \in Conns |-> IF d = c /\ c \in connected THEN Append(inbox[d], e) ELSE inbox[d]]

\* res.status(code).json(body)
Reply(o, code, text, id) ==
    lastReply' = [op |-> o.kind, user |-> o.user, target |-> o.mid,
                  status |-> code, error |-> text, data |-> Populated(id)]
NoReply == [op |-> "none", user |-> NoUser, target |-> NoMsgId,
            status |-> 0, error |-> "", data |-> NoPayload]

\* ---------------------------------------------------------------- handlers
Slots == 1..MaxInflight
Idle == [kind |-> "idle", pc |-> "idle", origin |-> Rest, user |-> NoUser,
         ch |-> NoChannel, mid |-> NoMsgId, content |-> NoContent,
         team |-> "noteam", emoji |-> "none", isPrivate |-> FALSE,
         token |-> "none", page |-> 1, limit |-> 1, got |-> NoPayload, todo |-> {}]

FreeSlot(s) == ops[s] = Idle /\ \A t \in Slots : t < s => ops[t] /= Idle

\* The request a handler serves.
Request(kind, origin, u, ch, mid, content) ==
    [Idle EXCEPT !.kind = kind, !.origin = origin, !.user = u,
                 !.ch = ch, !.mid = mid, !.content = content]

\* A request arrives; its handler runs past its first await and is suspended at pc.
Arrive(s, r, pc) ==
    /\ budget > 0
    /\ FreeSlot(s)
    /\ budget' = budget - 1
    /\ lastReq' = r
    /\ ops' = [ops EXCEPT ![s] = [r EXCEPT !.pc = pc]]

\* A request arrives and its handler ends in its first step.
ArriveAndEnd(r) ==
    /\ budget > 0
    /\ budget' = budget - 1
    /\ lastReq' = r
    /\ UNCHANGED ops

Goto(s, pc) == ops' = [ops EXCEPT ![s].pc = pc]
End(s) == ops' = [ops EXCEPT ![s] = Idle]

\* catch (error) { socket.emit('error', ...) } / res.status(...).json({ error })
Fail(o, code, restText, socketText) ==
    IF o.origin = Rest
    THEN /\ Reply(o, code, restText, NoMsgId)
         /\ UNCHANGED inbox
    ELSE /\ EmitToSocket(o.origin, ErrorEvent(socketText))
         /\ UNCHANGED lastReply

Origins == Conns \cup {Rest}
Closed == "closed"              \* the origin of a handler whose socket has closed
Caller(origin, u) == IF origin = Rest THEN TRUE ELSE origin \in connected /\ u = TokenUser[origin]

\* Message.create rows still to come from the handlers past their membership check
Creating == {s \in Slots : ops[s].kind \in {"send-message", "sendMessage"} /\ ops[s].pc = "create"}
SendKind(origin) == IF origin = Rest THEN "sendMessage" ELSE "send-message"
EditKind(origin) == IF origin = Rest THEN "editMessage" ELSE "edit-message"
DeleteKind(origin) == IF origin = Rest THEN "deleteMessage" ELSE "delete-message"

\* ------------------------------------------- socket.on('send-message') and
\* ------------------------------------------- sendMessage (POST /api/messages)
\* ChannelMember.findOne; without a row the handler answers and returns.
SendArrive(origin, u, ch, content) ==
    /\ Caller(origin, u)
    /\ IF IsChannelMember(u, ch)
       THEN /\ nextMsgId + Cardinality(Creating) <= MaxMsgs
            /\ \E s \in Slots :
                 Arrive(s, Request(SendKind(origin), origin, u, ch, NoMsgId, content), "create")
            /\ UNCHANGED <<inbox, lastReply>>
       ELSE /\ ArriveAndEnd(Request(SendKind(origin), origin, u, ch, NoMsgId, content))
            /\ Fail(Request(SendKind(origin), origin, u, ch, NoMsgId, content),
                    403, "Access denied", "Access denied")
    /\ UNCHANGED <<presenceVars, dbVars, connected, rooms>>

\* Channel.findByPk for the teamId (no handler writes it), then Message.create,
\* whose validation throws into the catch.
SendCreate(s) ==
    LET o == ops[s] IN
    /\ o.kind \in {"send-message", "sendMessage"} /\ o.pc = "create"
    /\ IF ValidContent(o.content)
       THEN /\ messages' = messages \cup
                   {[id |-> nextMsgId, senderId |-> o.user, channelId |-> o.ch,
                     teamId |-> channels[o.ch].teamId, content |-> o.content,
                     editedAt |-> 0]}
            /\ nextMsgId' = nextMsgId + 1
            /\ ops' = [ops EXCEPT ![s].mid = nextMsgId, ![s].pc = "update"]
            /\ UNCHANGED <<inbox, lastReply>>
       ELSE /\ Fail(o, 500, "Validation error", "Failed to send message")
            /\ End(s)
            /\ UNCHANGED <<messages, nextMsgId>>
    /\ UNCHANGED <<presenceVars, membershipVars, reactions, connected, rooms, reqVars>>

\* Channel.update({ lastMessageId: message.id })
SendUpdate(s) ==
    LET o == ops[s] IN
    /\ o.kind \in {"send-message", "sendMessage"} /\ o.pc = "update"
    /\ channels' = [channels EXCEPT ![o.ch].lastMessageId = o.mid]
    /\ Goto(s, "populate")
    /\ UNCHANGED <<presenceVars, teams, teamMembers, channelMembers, messages,
                   reactions, nextMsgId, connected, rooms, reqVars, inbox, lastReply>>

\* Message.findByPk(message.id, include sender); the REST handler answers 201 with it.
SendPopulate(s) ==
    LET o == ops[s] IN
    /\ o.kind \in {"send-message", "sendMessage"} /\ o.pc = "populate"
    /\ IF o.origin = Rest
       THEN Reply(o, 201, "", o.mid) /\ End(s)
       ELSE /\ ops' = [ops EXCEPT ![s].got = Populated(o.mid), ![s].pc = "emit"]
            /\ UNCHANGED lastReply
    /\ UNCHANGED <<presenceVars, dbVars, connected, rooms, reqVars, inbox>>

\* io.to(`channel-${channelId}`).emit('new-message', populatedMessage)
SendEmit(s) ==
    LET o == ops[s] IN
    /\ o.kind = "send-message" /\ o.pc = "emit"
    /\ EmitToRoom(ChannelRoom(o.ch), Event("new-message", o.got, ""))
    /\ End(s)
    /\ UNCHANGED <<presenceVars, dbVars, connected, rooms, reqVars, lastReply>>

\* The database rejects Channel.update or Message.findByPk (connection lost,
\* statement timeout): the await throws into the catch, which answers the
\* caller; the row Message.create has inserted is committed already.
SendRejected(s) ==
    LET o == ops[s] IN
    /\ o.kind \in {"send-message", "sendMessage"} /\ o.pc \in {"update", "populate"}
    /\ Fail(o, 500, "Database error", "Failed to send message")
    /\ End(s)
    /\ UNCHANGED <<presenceVars, dbVars, connected, rooms, reqVars>>

\* ------------------------------------------- socket.on('edit-message') and
\* ------------------------------------------- editMessage (PUT /api/messages/:id)
EditArrive(origin, u, mid, content) ==
    /\ Caller(origin, u)
    /\ IF FindOwn(mid, u) /= NullMsg
       THEN /\ \E s \in Slots :
                 Arrive(s, Request(EditKind(origin), origin, u,
                                   FindOwn(mid, u).channelId, mid, content), "update")
            /\ UNCHANGED <<inbox, lastReply>>
       ELSE /\ ArriveAndEnd(Request(EditKind(origin), origin, u, NoChannel, mid, content))
            /\ Fail(Request(EditKind(origin), origin, u, NoChannel, mid, content),
                    404, "Message not found", "Message not found")
    /\ UNCHANGED <<presenceVars, dbVars, connected, rooms>>

\* The row after message.update({ content, editedAt: new Date() })
EditedMutantContentOnly(m, content) == [m EXCEPT !.content = content]
Edited(m, content) == [m EXCEPT !.content = content, !.editedAt = 1]

\* message.update({ content, editedAt: new Date() }): UPDATE ... WHERE id
EditUpdate(s) ==
    LET o == ops[s] IN
    /\ o.kind \in {"edit-message", "editMessage"} /\ o.pc = "update"
    /\ IF ValidContent(o.content)
       THEN /\ messages' = {IF m.id = o.mid THEN Edited(m, o.content) ELSE m :
                              m \in messages}
            /\ Goto(s, "populate")
            /\ UNCHANGED <<inbox, lastReply>>
       ELSE /\ Fail(o, 500, "Validation error", "Failed to edit message")
            /\ End(s)
            /\ UNCHANGED messages
    /\ UNCHANGED <<presenceVars, membershipVars, reactions, nextMsgId, connected, rooms,
                   reqVars>>

EditPopulate(s) ==
    LET o == ops[s] IN
    /\ o.kind \in {"edit-message", "editMessage"} /\ o.pc = "populate"
    /\ IF o.origin = Rest
       THEN Reply(o, 200, "", o.mid) /\ End(s)
       ELSE /\ ops' = [ops EXCEPT ![s].got = Populated(o.mid), ![s].pc = "emit"]
            /\ UNCHANGED lastReply
    /\ UNCHANGED <<presenceVars, dbVars, connected, rooms, reqVars, inbox>>

\* io.to(`channel-${message.channelId}`).emit('message-edited', populatedMessage)
EditEmit(s) ==
    LET o == ops[s] IN
    /\ o.kind = "edit-message" /\ o.pc = "emit"
    /\ EmitToRoom(ChannelRoom(o.ch), Event("message-edited", o.got, ""))
    /\ End(s)
    /\ UNCHANGED <<presenceVars, dbVars, connected, rooms, reqVars, lastReply>>

\* ------------------------------------------- socket.on('delete-message') and
\* ------------------------------------------- deleteMessage (DELETE /api/messages/:id)
DeleteArrive(origin, u, mid) ==
    /\ Caller(origin, u)
    /\ IF FindOwn(mid, u) /= NullMsg
       THEN /\ \E s \in Slots :
                 Arrive(s, Request(DeleteKind(origin), origin, u,
                                   FindOwn(mid, u).channelId, mid, NoContent), "destroy")
            /\ UNCHANGED <<inbox, lastReply>>
       ELSE /\ ArriveAndEnd(Request(DeleteKind(origin), origin, u, NoChannel, mid, NoContent))
            /\ Fail(Request(DeleteKind(origin), origin, u, NoChannel, mid, NoContent),
                    404, "Message not found", "Message not found")
    /\ UNCHANGED <<presenceVars, dbVars, connected, rooms>>

\* Message.destroy({ where: { id } }); the REST handler answers 200.  The rows
\* of message_reactions go with their message (the through table's foreign key
\* is ON DELETE CASCADE).
DeleteDestroy(s) ==
    LET o == ops[s] IN
    /\ o.kind \in {"delete-message", "deleteMessage"} /\ o.pc = "destroy"
    /\ messages' = {m \in messages : m.id /= o.mid}
    /\ reactions' = {r \in reactions : r[2] /= o.mid}
    /\ IF o.origin = Rest
       THEN Reply(o, 200, "", NoMsgId) /\ End(s)
       ELSE Goto(s, "emit") /\ UNCHANGED lastReply
    /\ UNCHANGED <<presenceVars, membershipVars, nextMsgId, connected, rooms,
                   reqVars, inbox>>

\* io.to(`channel-${channelId}`).emit('message-deleted', messageId)
DeleteEmit(s) ==
    LET o == ops[s] IN
    /\ o.kind = "delete-message" /\ o.pc = "emit"
    /\ EmitToRoom(ChannelRoom(o.ch), Event("message-deleted", IdPayload(o.mid), ""))
    /\ End(s)
    /\ UNCHANGED <<presenceVars, dbVars, connected, rooms, reqVars, lastReply>>

\* ------------------------------------------------------ the room handlers
\* socket.on('join-teams'): joins every team room named, unchecked.
JoinTeams(c, ts) ==
    /\ c \in connected
    /\ ArriveAndEnd([Request("join-teams", c, TokenUser[c], NoChannel, NoMsgId, NoContent)
                        EXCEPT !.todo = ts])
    /\ rooms' = [r \in RoomKeys |->
                    IF \E t \in ts : r = TeamRoom(t) THEN rooms[r] \cup {c} ELSE rooms[r]]
    /\ UNCHANGED <<presenceVars, dbVars, connected, inbox, lastReply>>

\* socket.on('join-channel'): ChannelMember.findOne; without a row nothing happens.
JoinChannelArrive(c, ch) ==
    /\ c \in connected
    /\ IF IsChannelMember(TokenUser[c], ch)
       THEN \E s \in Slots :
              Arrive(s, Request("join-channel", c, TokenUser[c], ch, NoMsgId, NoContent), "join")
       ELSE ArriveAndEnd(Request("join-channel", c, TokenUser[c], ch, NoMsgId, NoContent))
    /\ UNCHANGED <<presenceVars, dbVars, connected, rooms, inbox, lastReply>>

\* if (channelMember) socket.join(`channel-${channelId}`).  The id of a socket
\* that has closed meanwhile is never a socket again: joining it changes nothing
\* a later connection can see.
JoinChannelApply(s) ==
    LET o == ops[s] IN
    /\ o.kind = "join-channel" /\ o.pc = "join"
    /\ rooms' = IF o.origin \in Conns
                THEN SocketJoin(rooms, o.origin, ChannelRoom(o.ch))
                ELSE rooms
    /\ End(s)
    /\ UNCHANGED <<presenceVars, dbVars, connected, reqVars, inbox, lastReply>>

\* socket.on('leave-channel')
LeaveChannelRoom(c, ch) ==
    /\ c \in connected
    /\ ArriveAndEnd(Request("leave-channel", c, TokenUser[c], ch, NoMsgId, NoContent))
    /\ rooms' = SocketLeave(rooms, c, ChannelRoom(ch))
    /\ UNCHANGED <<presenceVars, dbVars, connected, inbox, lastReply>>

\* socket.to(room).emit(type, payload): the room without the sending socket.
EmitToOthersMutantAll(c, r, e) == EmitToRoom(r, e)
EmitToOthers(c, r, e) ==
    inbox' = [d \in Conns |->
                IF d \in Audience(r) \ {c} THEN Append(inbox[d], e) ELSE inbox[d]]

TypingPayload(u, b) == [userId |-> u, username |-> u, isTyping |-> b]

\* socket.on('typing'): no await and no check; the event goes to the room of
\* the channel named, whoever names it.
Typing(c, ch, b) ==
    /\ c \in connected
    /\ ArriveAndEnd(Request("typing", c, TokenUser[c], ch, NoMsgId, NoContent))
    /\ EmitToOthers(c, ChannelRoom(ch),
                    Event("user-typing", TypingPayload(TokenUser[c], b), ""))
    /\ UNCHANGED <<presenceVars, dbVars, connected, rooms, lastReply>>

\* ------------------------------------------------------- connection cycle
\* io.use(authenticateSocket) lets the token's user in; io.on('connection')
\* issues User.update({ isOnline: true }) and does not await it.
Connect(c) ==
    /\ c \notin connected
    /\ connected' = connected \cup {c}
    /\ IssuePresence(TokenUser[c], TRUE, FALSE, "connect")
    /\ UNCHANGED <<dbVars, rooms, ops, reqVars, inbox, lastReply>>

\* What a client may present as socket.handshake.auth.token: nothing, a string
\* jwt.verify throws on, a token signed for an id the users table does not
\* hold, and the token of the client's own account.
Tokens == {"missing", "forged", "stale", "good"}
GhostUser == "ghost"
\* jwt.verify(token, secret).id
Decoded(c, tok) == IF tok = "good" THEN TokenUser[c] ELSE GhostUser

\* authenticateSocket calls next() without an error: the token is there,
\* jwt.verify accepts it and User.findByPk(decoded.id) finds a row.
AuthenticatedMutantAnySigned(c, tok) == tok \in {"stale", "good"}
Authenticated(c, tok) ==
    /\ tok /= "missing"
    /\ tok /= "forged"
    /\ Decoded(c, tok) \in DOMAIN users

HandshakeRequest(c, tok) ==
    [Request("handshake", c, NoUser, NoChannel, NoMsgId, NoContent) EXCEPT !.token = tok]

\* A client opens a socket: io.use(authenticateSocket), then, only if the
\* middleware called next() without an error, io.on('connection').  With an
\* error Socket.IO answers the handshake with connect_error and closes: no
\* socket is added to the namespace and the connection callback does not run.
Handshake(c, tok) ==
    /\ c \notin connected
    /\ ArriveAndEnd(HandshakeRequest(c, tok))
    /\ IF Authenticated(c, tok)
       THEN /\ connected' = connected \cup {c}
            /\ IssuePresence(TokenUser[c], TRUE, FALSE, "connect")
       ELSE UNCHANGED <<connected, presenceVars>>
    /\ UNCHANGED <<dbVars, rooms, inbox, lastReply>>

\* The handlers of a socket that closes keep running; what they emit to it is lost.
Orphaned(c) == [s \in Slots |-> IF ops[s].origin = c
                                THEN [ops[s] EXCEPT !.origin = Closed]
                                ELSE ops[s]]

\* The disconnect handler's own writes to the membership tables: none.
DisconnectRowsMutantLeaveChannels(c) ==
    channelMembers' = {p \in channelMembers : p[1] /= TokenUser[c]}
DisconnectRows(c) == channelMembers' = channelMembers

\* The socket closes: Socket.IO takes it out of its rooms and of the namespace,
\* then socket.on('disconnect') issues User.update({ isOnline: false, lastSeen })
\* and does not await it.
Disconnect(c) ==
    /\ c \in connected
    /\ connected' = connected \ {c}
    /\ rooms' = LeaveAll(rooms, c)
    /\ ops' = Orphaned(c)
    /\ IssuePresence(TokenUser[c], FALSE, TRUE, "disconnect")
    /\ DisconnectRows(c)
    /\ UNCHANGED <<teams, teamMembers, channels, messages, reactions, nextMsgId,
                   reqVars, inbox, lastReply>>

\* login (POST /api/auth/login): await user.update({ isOnline: true })
Login(u) ==
    /\ IssuePresence(u, TRUE, FALSE, "login")
    /\ UNCHANGED <<dbVars, connected, rooms, ops, reqVars, inbox, lastReply>>

\* logout (POST /api/auth/logout): await User.update({ isOnline: false, lastSeen })
Logout(u) ==
    /\ IssuePresence(u, FALSE, TRUE, "logout")
    /\ UNCHANGED <<dbVars, connected, rooms, ops, reqVars, inbox, lastReply>>

PresenceStep ==
    /\ \E w \in pending : PresenceCommit(w)
    /\ UNCHANGED <<dbVars, connected, rooms, ops, reqVars, inbox, lastReply>>

\* ------------------------------------------------ leaveChannel, leaveTeam
\* team.ownerId === userId
IsOwnerMutantWhileAlone(u, t) ==
    teams[t].ownerId = u /\ \A m \in teamMembers : m[2] = t => m[1] = u
IsOwner(u, t) == teams[t].ownerId = u

\* leaveChannel (DELETE /api/channels/:id/leave): ChannelMember.destroy, then 200.
LeaveChannel(u, ch) ==
    /\ ch \in DOMAIN channels
    /\ ArriveAndEnd(Request("leaveChannel", Rest, u, ch, NoMsgId, NoContent))
    /\ channelMembers' = channelMembers \ {<<u, ch>>}
    /\ Reply(Request("leaveChannel", Rest, u, ch, NoMsgId, NoContent), 200, "", NoMsgId)
    /\ UNCHANGED <<presenceVars, teams, teamMembers, channels, messages, reactions,
                   nextMsgId, connected, rooms, inbox>>

\* leaveTeam (DELETE /api/teams/:id/leave): the owner is refused; otherwise
\* TeamMember.destroy.
LeaveTeamArrive(u, t) ==
    /\ t \in DOMAIN teams
    /\ IF IsOwner(u, t)
       THEN /\ ArriveAndEnd([Request("leaveTeam", Rest, u, NoChannel, NoMsgId, NoContent)
                                EXCEPT !.team = t])
            /\ Reply([Request("leaveTeam", Rest, u, NoChannel, NoMsgId, NoContent)
                        EXCEPT !.team = t], 400, "Owner cannot leave team", NoMsgId)
            /\ UNCHANGED teamMembers
       ELSE /\ \E s \in Slots :
                 Arrive(s, [Request("leaveTeam", Rest, u, NoChannel, NoMsgId, NoContent)
                              EXCEPT !.team = t], "findChannels")
            /\ teamMembers' = {m \in teamMembers : ~(m[1] = u /\ m[2] = t)}
            /\ UNCHANGED lastReply
    /\ UNCHANGED <<presenceVars, teams, channels, channelMembers, messages, reactions,
                   nextMsgId, connected, rooms, inbox>>

\* Channel.findAll({ where: { teamId } }) on the table chs
TeamChannelsMutantPublic(chs, t) ==
    {ch \in DOMAIN chs : chs[ch].teamId = t /\ ~chs[ch].isPrivate}
TeamChannels(chs, t) == {ch \in DOMAIN chs : chs[ch].teamId = t}

LeaveTeamFind(s) ==
    LET o == ops[s] IN
    /\ o.kind = "leaveTeam" /\ o.pc = "findChannels"
    /\ ops' = [ops EXCEPT ![s].todo = TeamChannels(channels, o.team),
                          ![s].pc = "destroyEach"]
    /\ UNCHANGED <<presenceVars, dbVars, connected, rooms, reqVars, inbox, lastReply>>

\* for (const channel of teamChannels) await ChannelMember.destroy(...); then 200.
\* findAll has no order clause: the rows come in any order.
LeaveTeamDestroy(s) ==
    LET o == ops[s] IN
    /\ o.kind = "leaveTeam" /\ o.pc = "destroyEach"
    /\ IF o.todo = {}
       THEN /\ Reply(o, 200, "", NoMsgId) /\ End(s)
            /\ UNCHANGED channelMembers
       ELSE \E ch \in o.todo :
              /\ channelMembers' = channelMembers \ {<<o.user, ch>>}
              /\ ops' = [ops EXCEPT ![s].todo = @ \ {ch}]
              /\ UNCHANGED lastReply
    /\ UNCHANGED <<presenceVars, teams, teamMembers, channels, messages, reactions,
                   nextMsgId, connected, rooms, reqVars, inbox>>

\* ------------------------------------------ createChannel (POST /api/channels)
\* The ids Channel.create hands out, in the order it hands them out.
FreshChannelIds == <<"c3", "c4", "c5">>
AllChannelIds == ChannelIds \cup {FreshChannelIds[i] : i \in 1..Len(FreshChannelIds)}
ChannelsCreated == Cardinality(DOMAIN channels) - Cardinality(ChannelIds)
NextChannelId == FreshChannelIds[ChannelsCreated + 1]
CreatingChannel == {s \in Slots : ops[s].kind = "createChannel" /\ ops[s].pc \in {"admin", "create"}}
\* The Channel.create calls the createTeam handlers in flight have still to make.
CreatingDefaults(n) ==
    {s \in Slots : /\ ops[s].kind = "createTeam"
                   /\ ops[s].pc \in (IF n = 2 THEN {"save", "member", "general"} ELSE {"random"})}
ChannelIdsOwed ==
    Cardinality(CreatingChannel) + 2 * Cardinality(CreatingDefaults(2))
        + Cardinality(CreatingDefaults(1))

\* TeamMember.findOne({ where: { userId, teamId, role: 'admin' } })
IsTeamAdminMutantAnyRole(u, t) == \E m \in teamMembers : m[1] = u /\ m[2] = t
IsTeamAdmin(u, t) == <<u, t, "admin">> \in teamMembers
\* TeamMember.findOne({ where: { userId, teamId } })
IsTeamMemberMutantAnyone(u, t) == TRUE
IsTeamMember(u, t) == \E m \in teamMembers : m[1] = u /\ m[2] = t
\* TeamMember.findAll({ where: { teamId } }), mapped to the user ids
TeamUsers(t) == {m[1] : m \in {x \in teamMembers : x[2] = t}}

\* channelMembers.filter(member => member.userId !== userId)
FilteredMembersMutantUnfiltered(o) == {<<u, o.ch>> : u \in o.todo}
FilteredMembers(o) == {<<u, o.ch>> : u \in o.todo \ {o.user}}

\* An INSERT into channel_members is rejected as a whole when one of its rows
\* is already there (unique index on user and channel).
RowsRejected(rows) == rows \cap channelMembers /= {}

ChannelRequest(u, t, priv) ==
    [Request("createChannel", Rest, u, NoChannel, NoMsgId, NoContent)
        EXCEPT !.team = t, !.isPrivate = priv]

\* Team.findByPk(teamId); without a row the handler answers 404.
CreateChannelArrive(u, t, priv) ==
    /\ ChannelsCreated + ChannelIdsOwed < Len(FreshChannelIds)
    /\ IF t \in DOMAIN teams
       THEN /\ \E s \in Slots :
                 Arrive(s, ChannelRequest(u, t, priv),
                        IF IsOwner(u, t) THEN "create" ELSE "admin")
            /\ UNCHANGED lastReply
       ELSE /\ ArriveAndEnd(ChannelRequest(u, t, priv))
            /\ Reply(ChannelRequest(u, t, priv), 404, "Team not found", NoMsgId)
    /\ UNCHANGED <<presenceVars, dbVars, connected, rooms, inbox>>

\* Not the owner: the caller needs an admin row, or the handler answers 403.
CreateChannelAdmin(s) ==
    LET o == ops[s] IN
    /\ o.kind = "createChannel" /\ o.pc = "admin"
    /\ IF IsTeamAdmin(o.user, o.team)
       THEN Goto(s, "create") /\ UNCHANGED lastReply
       ELSE Reply(o, 403, "Permission denied", NoMsgId) /\ End(s)
    /\ UNCHANGED <<presenceVars, dbVars, connected, rooms, reqVars, inbox>>

\* Channel.create({ ..., isPrivate: isPrivate || false })
CreateChannelCreate(s) ==
    LET o == ops[s] IN
    /\ o.kind = "createChannel" /\ o.pc = "create"
    /\ channels' = [ch \in DOMAIN channels \cup {NextChannelId} |->
                      IF ch = NextChannelId
                      THEN [teamId |-> o.team, name |-> BeforeSave(ChannelName("topic")),
                            isPrivate |-> o.isPrivate, lastMessageId |-> NoMsgId]
                      ELSE channels[ch]]
    /\ ops' = [ops EXCEPT ![s].ch = NextChannelId, ![s].pc = "creator"]
    /\ UNCHANGED <<presenceVars, teams, teamMembers, channelMembers, messages, reactions,
                   nextMsgId, connected, rooms, reqVars, inbox, lastReply>>

\* ChannelMember.create({ userId, channelId: channel.id })
CreateChannelCreator(s) ==
    LET o == ops[s] IN
    /\ o.kind = "createChannel" /\ o.pc = "creator"
    /\ IF RowsRejected({<<o.user, o.ch>>})
       THEN /\ Reply(o, 500, "Validation error", NoMsgId) /\ End(s)
            /\ UNCHANGED channelMembers
       ELSE /\ channelMembers' = channelMembers \cup {<<o.user, o.ch>>}
            /\ Goto(s, IF o.isPrivate THEN "populate" ELSE "findMembers")
            /\ UNCHANGED lastReply
    /\ UNCHANGED <<presenceVars, teams, teamMembers, channels, messages, reactions,
                   nextMsgId, connected, rooms, reqVars, inbox>>

\* if (!isPrivate) TeamMember.findAll({ where: { teamId } })
CreateChannelFindMembers(s) ==
    LET o == ops[s] IN
    /\ o.kind = "createChannel" /\ o.pc = "findMembers"
    /\ ops' = [ops EXCEPT ![s].todo = TeamUsers(o.team), ![s].pc = "bulk"]
    /\ UNCHANGED <<presenceVars, dbVars, connected, rooms, reqVars, inbox, lastReply>>

\* ChannelMember.bulkCreate(filteredMembers): one INSERT
CreateChannelBulk(s) ==
    LET o == ops[s] IN
    /\ o.kind = "createChannel" /\ o.pc = "bulk"
    /\ IF RowsRejected(FilteredMembers(o))
       THEN /\ Reply(o, 500, "Validation error", NoMsgId) /\ End(s)
            /\ UNCHANGED channelMembers
       ELSE /\ channelMembers' = channelMembers \cup FilteredMembers(o)
            /\ Goto(s, "populate")
            /\ UNCHANGED lastReply
    /\ UNCHANGED <<presenceVars, teams, teamMembers, channels, messages, reactions,
                   nextMsgId, connected, rooms, reqVars, inbox>>

\* Channel.findByPk(channel.id, include members and createdBy), then 201.
CreateChannelReply(s) ==
    LET o == ops[s] IN
    /\ o.kind = "createChannel" /\ o.pc = "populate"
    /\ Reply(o, 201, "", NoMsgId)
    /\ End(s)
    /\ UNCHANGED <<presenceVars, dbVars, connected, rooms, reqVars, inbox>>

\* ------------------------------------------------ joinTeam (POST /api/teams/join)
\* Channel.findAll({ where: { teamId, isPrivate: false } })
PublicChannelsMutantAll(t) == {ch \in DOMAIN channels : channels[ch].teamId = t}
PublicChannels(t) ==
    {ch \in DOMAIN channels : channels[ch].teamId = t /\ ~channels[ch].isPrivate}

TeamRequest(kind, u, t) ==
    [Request(kind, Rest, u, NoChannel, NoMsgId, NoContent) EXCEPT !.team = t]

\* Team.findOne({ where: { inviteCode } }): the code is that of team t or of none.
JoinTeamArrive(u, t) ==
    /\ IF t \in DOMAIN teams
       THEN /\ \E s \in Slots : Arrive(s, TeamRequest("joinTeam", u, t), "existing")
            /\ UNCHANGED lastReply
       ELSE /\ ArriveAndEnd(TeamRequest("joinTeam", u, t))
            /\ Reply(TeamRequest("joinTeam", u, t), 404, "Invalid invite code", NoMsgId)
    /\ UNCHANGED <<presenceVars, dbVars, connected, rooms, inbox>>

\* TeamMember.findOne: a member is answered 400.
JoinTeamExisting(s) ==
    LET o == ops[s] IN
    /\ o.kind = "joinTeam" /\ o.pc = "existing"
    /\ IF IsTeamMember(o.user, o.team)
       THEN Reply(o, 400, "Already a member of this team", NoMsgId) /\ End(s)
       ELSE Goto(s, "addMember") /\ UNCHANGED lastReply
    /\ UNCHANGED <<presenceVars, dbVars, connected, rooms, reqVars, inbox>>

\* TeamMember.create({ userId, teamId, role: 'member' }); team_members is unique
\* on user and team.
JoinTeamAdd(s) ==
    LET o == ops[s] IN
    /\ o.kind = "joinTeam" /\ o.pc = "addMember"
    /\ IF IsTeamMember(o.user, o.team)
       THEN /\ Reply(o, 500, "Validation error", NoMsgId) /\ End(s)
            /\ UNCHANGED teamMembers
       ELSE /\ teamMembers' = teamMembers \cup {<<o.user, o.team, "member">>}
            /\ Goto(s, "findChannels")
            /\ UNCHANGED lastReply
    /\ UNCHANGED <<presenceVars, teams, channels, channelMembers, messages, reactions,
                   nextMsgId, connected, rooms, reqVars, inbox>>

JoinTeamFind(s) ==
    LET o == ops[s] IN
    /\ o.kind = "joinTeam" /\ o.pc = "findChannels"
    /\ ops' = [ops EXCEPT ![s].todo = PublicChannels(o.team), ![s].pc = "createEach"]
    /\ UNCHANGED <<presenceVars, dbVars, connected, rooms, reqVars, inbox, lastReply>>

\* for (const channel of publicChannels) await ChannelMember.create(...)
\* findAll has no order clause: the rows come in any order.
JoinTeamEach(s) ==
    LET o == ops[s] IN
    /\ o.kind = "joinTeam" /\ o.pc = "createEach" /\ o.todo /= {}
    /\ \E ch \in o.todo :
         IF RowsRejected({<<o.user, ch>>})
         THEN /\ Reply(o, 500, "Validation error", NoMsgId) /\ End(s)
              /\ UNCHANGED channelMembers
         ELSE /\ channelMembers' = channelMembers \cup {<<o.user, ch>>}
              /\ ops' = [ops EXCEPT ![s].todo = @ \ {ch}]
              /\ UNCHANGED lastReply
    /\ UNCHANGED <<presenceVars, teams, teamMembers, channels, messages, reactions,
                   nextMsgId, connected, rooms, reqVars, inbox>>

\* Team.findByPk(team.id, include members and channels), then 200.
JoinTeamReply(s) ==
    LET o == ops[s] IN
    /\ o.kind = "joinTeam" /\ o.pc = "createEach" /\ o.todo = {}
    /\ Reply(o, 200, "", NoMsgId)
    /\ End(s)
    /\ UNCHANGED <<presenceVars, dbVars, connected, rooms, reqVars, inbox>>

\* ------------------------------- joinChannel (POST /api/channels/:channelId/join)
ChannelJoinRequest(u, ch) == Request("joinChannel", Rest, u, ch, NoMsgId, NoContent)

\* Channel.findByPk(channelId); without a row the handler answers 404.
JoinChannelFind(u, ch) ==
    /\ IF ch \in DOMAIN channels
       THEN /\ \E s \in Slots :
                 Arrive(s, [ChannelJoinRequest(u, ch) EXCEPT !.team = channels[ch].teamId],
                        "team")
            /\ UNCHANGED lastReply
       ELSE /\ ArriveAndEnd(ChannelJoinRequest(u, ch))
            /\ Reply(ChannelJoinRequest(u, ch), 404, "Channel not found", NoMsgId)
    /\ UNCHANGED <<presenceVars, dbVars, connected, rooms, inbox>>

\* TeamMember.findOne for the channel's team; without a row 403.
JoinChannelTeamMutantPublicOnly(s) ==
    LET o == ops[s] IN
    /\ o.kind = "joinChannel" /\ o.pc = "team"
    /\ IF IsTeamMember(o.user, o.team) /\ ~channels[o.ch].isPrivate
       THEN Goto(s, "existing") /\ UNCHANGED lastReply
       ELSE Reply(o, 403, "Access denied", NoMsgId) /\ End(s)
    /\ UNCHANGED <<presenceVars, dbVars, connected, rooms, reqVars, inbox>>
JoinChannelTeam(s) ==
    LET o == ops[s] IN
    /\ o.kind = "joinChannel" /\ o.pc = "team"
    /\ IF IsTeamMember(o.user, o.team)
       THEN Goto(s, "existing") /\ UNCHANGED lastReply
       ELSE Reply(o, 403, "Access denied", NoMsgId) /\ End(s)
    /\ UNCHANGED <<presenceVars, dbVars, connected, rooms, reqVars, inbox>>

\* ChannelMember.findOne; with a row 400.
JoinChannelExisting(s) ==
    LET o == ops[s] IN
    /\ o.kind = "joinChannel" /\ o.pc = "existing"
    /\ IF IsChannelMember(o.user, o.ch)
       THEN Reply(o, 400, "Already a member of this channel", NoMsgId) /\ End(s)
       ELSE Goto(s, "add") /\ UNCHANGED lastReply
    /\ UNCHANGED <<presenceVars, dbVars, connected, rooms, reqVars, inbox>>

\* ChannelMember.create({ userId, channelId }), then 200.
JoinChannelAdd(s) ==
    LET o == ops[s] IN
    /\ o.kind = "joinChannel" /\ o.pc = "add"
    /\ IF RowsRejected({<<o.user, o.ch>>})
       THEN /\ Reply(o, 500, "Validation error", NoMsgId)
            /\ UNCHANGED channelMembers
       ELSE /\ channelMembers' = channelMembers \cup {<<o.user, o.ch>>}
            /\ Reply(o, 200, "", NoMsgId)
    /\ End(s)
    /\ UNCHANGED <<presenceVars, teams, teamMembers, channels, messages, reactions,
                   nextMsgId, connected, rooms, reqVars, inbox>>

\* ------------------------------------------------ createTeam (POST /api/teams)
\* The ids Team.create hands out, in the order it hands them out.
FreshTeamIds == <<"t2", "t3">>
AllTeamIds == Teams \cup {FreshTeamIds[i] : i \in 1..Len(FreshTeamIds)}
TeamsCreated == Cardinality(DOMAIN teams) - Cardinality(Teams)
NextTeamId == FreshTeamIds[TeamsCreated + 1]

\* Team.prototype.generateInviteCode: uuidv4(), a code no team has or has had.
CodesInUse == {teams[t].inviteCode : t \in DOMAIN teams}
FreshInviteCode == (CHOOSE n \in CodesInUse : \A m \in CodesInUse : m <= n) + 1

\* The row createTeam gives the owner.
OwnerRowMutantMember(u, t) == <<u, t, "member">>
OwnerRow(u, t) == <<u, t, "admin">>

\* catch (error) { res.status(500).json({ error: error.message }) }: nothing is
\* undone, the handler has no transaction.
Rejected(s) ==
    /\ Reply(ops[s], 500, "Database error", NoMsgId)
    /\ End(s)

\* Team.create({ name, description, ownerId }).  Like every statement of the
\* handler it may be rejected (validation of the name, or the database).
CreateTeamArrive(u, ok) ==
    /\ TeamsCreated < Len(FreshTeamIds)
    /\ ChannelsCreated + ChannelIdsOwed + 2 <= Len(FreshChannelIds)
    /\ IF ok
       THEN /\ \E s \in Slots : Arrive(s, TeamRequest("createTeam", u, NextTeamId), "save")
            /\ teams' = [t \in DOMAIN teams \cup {NextTeamId} |->
                           IF t = NextTeamId
                           THEN [ownerId |-> u, inviteCode |-> 0]
                           ELSE teams[t]]
            /\ UNCHANGED lastReply
       ELSE /\ ArriveAndEnd(TeamRequest("createTeam", u, NextTeamId))
            /\ Reply(TeamRequest("createTeam", u, NextTeamId), 500, "Database error", NoMsgId)
            /\ UNCHANGED teams
    /\ UNCHANGED <<presenceVars, teamMembers, channels, channelMembers, messages,
                   reactions, nextMsgId, connected, rooms, inbox>>

\* team.generateInviteCode(); await team.save()
CreateTeamSave(s, ok) ==
    LET o == ops[s] IN
    /\ o.kind = "createTeam" /\ o.pc = "save"
    /\ IF ok
       THEN /\ teams' = [teams EXCEPT ![o.team].inviteCode = FreshInviteCode]
            /\ Goto(s, "member")
            /\ UNCHANGED lastReply
       ELSE Rejected(s) /\ UNCHANGED teams
    /\ UNCHANGED <<presenceVars, teamMembers, channels, channelMembers, messages,
                   reactions, nextMsgId, connected, rooms, reqVars, inbox>>

\* TeamMember.create({ userId, teamId: team.id, role: 'admin' })
CreateTeamMember(s, ok) ==
    LET o == ops[s] IN
    /\ o.kind = "createTeam" /\ o.pc = "member"
    /\ IF ok /\ ~IsTeamMember(o.user, o.team)
       THEN /\ teamMembers' = teamMembers \cup {OwnerRow(o.user, o.team)}
            /\ Goto(s, "general")
            /\ UNCHANGED lastReply
       ELSE Rejected(s) /\ UNCHANGED teamMembers
    /\ UNCHANGED <<presenceVars, teams, channels, channelMembers, messages,
                   reactions, nextMsgId, connected, rooms, reqVars, inbox>>

\* Channel.create({ name, ..., teamId: team.id, createdById, isPrivate: false })
DefaultChannel(s, name, ok, pc) ==
    LET o == ops[s] IN
    /\ IF ok
       THEN /\ channels' = [ch \in DOMAIN channels \cup {NextChannelId} |->
                              IF ch = NextChannelId
                              THEN [teamId |-> o.team, name |-> BeforeSave(ChannelName(name)),
                                    isPrivate |-> FALSE, lastMessageId |-> NoMsgId]
                              ELSE channels[ch]]
            /\ ops' = [ops EXCEPT ![s].todo = @ \cup {NextChannelId}, ![s].pc = pc]
            /\ UNCHANGED lastReply
       ELSE Rejected(s) /\ UNCHANGED channels
    /\ UNCHANGED <<presenceVars, teams, teamMembers, channelMembers, messages,
                   reactions, nextMsgId, connected, rooms, reqVars, inbox>>

CreateTeamGeneral(s, ok) ==
    /\ ops[s].kind = "createTeam" /\ ops[s].pc = "general"
    /\ DefaultChannel(s, "general", ok, "random")

CreateTeamRandom(s, ok) ==
    /\ ops[s].kind = "createTeam" /\ ops[s].pc = "random"
    /\ DefaultChannel(s, "random", ok, "bulk")

\* ChannelMember.bulkCreate([{ userId, channelId: generalChannel.id }, { ... random }])
CreateTeamBulk(s, ok) ==
    LET o == ops[s] IN
    /\ o.kind = "createTeam" /\ o.pc = "bulk"
    /\ IF ok /\ ~RowsRejected({<<o.user, ch>> : ch \in o.todo})
       THEN /\ channelMembers' = channelMembers \cup {<<o.user, ch>> : ch \in o.todo}
            /\ Goto(s, "populate")
            /\ UNCHANGED lastReply
       ELSE Rejected(s) /\ UNCHANGED channelMembers
    /\ UNCHANGED <<presenceVars, teams, teamMembers, channels, messages,
                   reactions, nextMsgId, connected, rooms, reqVars, inbox>>

\* Team.findByPk(team.id, include members and channels), then 201.
CreateTeamReply(s) ==
    LET o == ops[s] IN
    /\ o.kind = "createTeam" /\ o.pc = "populate"
    /\ Reply(o, 201, "", NoMsgId)
    /\ End(s)
    /\ UNCHANGED <<presenceVars, dbVars, connected, rooms, reqVars, inbox>>

\* ------------------------- generateInviteCode (POST /api/teams/:teamId/invite)
\* Team.findByPk(teamId); without a row the handler answers 404.
InviteArrive(u, t) ==
    /\ IF t \in DOMAIN teams
       THEN /\ \E s \in Slots :
                 Arrive(s, TeamRequest("generateInviteCode", u, t),
                        IF IsOwner(u, t) THEN "save" ELSE "admin")
            /\ UNCHANGED lastReply
       ELSE /\ ArriveAndEnd(TeamRequest("generateInviteCode", u, t))
            /\ Reply(TeamRequest("generateInviteCode", u, t), 404, "Team not found", NoMsgId)
    /\ UNCHANGED <<presenceVars, dbVars, connected, rooms, inbox>>

\* Not the owner: the caller needs an admin row, or the handler answers 403.
InviteAdmin(s) ==
    LET o == ops[s] IN
    /\ o.kind = "generateInviteCode" /\ o.pc = "admin"
    /\ IF IsTeamAdmin(o.user, o.team)
       THEN Goto(s, "save") /\ UNCHANGED lastReply
       ELSE Reply(o, 403, "Permission denied", NoMsgId) /\ End(s)
    /\ UNCHANGED <<presenceVars, dbVars, connected, rooms, reqVars, inbox>>

\* team.generateInviteCode(); await team.save(); res.json({ inviteCode })
InviteSave(s) ==
    LET o == ops[s] IN
    /\ o.kind = "generateInviteCode" /\ o.pc = "save"
    /\ teams' = [teams EXCEPT ![o.team].inviteCode = FreshInviteCode]
    /\ Reply(o, 200, "", NoMsgId)
    /\ End(s)
    /\ UNCHANGED <<presenceVars, teamMembers, channels, channelMembers, messages,
                   reactions, nextMsgId, connected, rooms, reqVars, inbox>>

\* ----------------- getChannelMessages (GET /api/channels/:channelId/messages)
\* order: [['createdAt', 'DESC']]: the rows, latest created first (ids are
\* ranks of creation).
RECURSIVE NewestFirst(_)
NewestFirst(rows) ==
    IF rows = {} THEN <<>>
    ELSE LET top == CHOOSE m \in rows : \A n \in rows : n.id <= m.id
         IN <<top>> \o NewestFirst(rows \ {top})

\* LIMIT limit OFFSET offset
LimitOffset(seq, limit, offset) ==
    SubSeq(seq, offset + 1, IF offset + limit < Len(seq) THEN offset + limit ELSE Len(seq))

\* messages.reverse()
ReverseMutantKeep(seq) == seq
Reverse(seq) == [i \in 1..Len(seq) |-> seq[Len(seq) + 1 - i]]

\* Message.findAll({ where: { channelId }, order, limit, offset })
FindPage(ch, page, limit) ==
    LimitOffset(NewestFirst({m \in messages : m.channelId = ch}), limit, (page - 1) * limit)

HistoryRequest(u, ch, page, limit) ==
    [Request("getChannelMessages", Rest, u, ch, NoMsgId, NoContent)
        EXCEPT !.page = page, !.limit = limit]

\* ChannelMember.findOne; without a row the handler answers 403.
HistoryArrive(u, ch, page, limit) ==
    /\ IF IsChannelMember(u, ch)
       THEN /\ \E s \in Slots : Arrive(s, HistoryRequest(u, ch, page, limit), "find")
            /\ UNCHANGED lastReply
       ELSE /\ ArriveAndEnd(HistoryRequest(u, ch, page, limit))
            /\ Reply(HistoryRequest(u, ch, page, limit), 403, "Access denied", NoMsgId)
    /\ UNCHANGED <<presenceVars, dbVars, connected, rooms, inbox>>

\* Message.findAll, then res.json(messages.reverse()).  A negative OFFSET is an
\* error of the database, which the catch answers with 500.
HistoryFind(s) ==
    LET o == ops[s] IN
    /\ o.kind = "getChannelMessages" /\ o.pc = "find"
    /\ IF (o.page - 1) * o.limit < 0
       THEN Reply(o, 500, "OFFSET must not be negative", NoMsgId)
       ELSE lastReply' = [op |-> o.kind, user |-> o.user, target |-> o.mid,
                          status |-> 200, error |-> "",
                          data |-> [msg |-> NullMsg, sender |-> NoUser,
                                    page |-> Reverse(FindPage(o.ch, o.page, o.limit))]]
    /\ End(s)
    /\ UNCHANGED <<presenceVars, dbVars, connected, rooms, reqVars, inbox>>

\* ------------------------------------ getChannel (GET /api/channels/:channelId)
\* ChannelMember.findOne; without a row the handler answers 404.
GetChannelArrive(u, ch) ==
    /\ IF IsChannelMember(u, ch)
       THEN /\ \E s \in Slots :
                 Arrive(s, Request("getChannel", Rest, u, ch, NoMsgId, NoContent), "find")
            /\ UNCHANGED lastReply
       ELSE /\ ArriveAndEnd(Request("getChannel", Rest, u, ch, NoMsgId, NoContent))
            /\ Reply(Request("getChannel", Rest, u, ch, NoMsgId, NoContent),
                     404, "Channel not found", NoMsgId)
    /\ UNCHANGED <<presenceVars, dbVars, connected, rooms, inbox>>

\* Channel.findByPk(channelId, include members and createdBy), then 200.
GetChannelFind(s) ==
    LET o == ops[s] IN
    /\ o.kind = "getChannel" /\ o.pc = "find"
    /\ lastReply' = [op |-> o.kind, user |-> o.user, target |-> o.mid,
                     status |-> 200, error |-> "",
                     data |-> [msg |-> NullMsg, sender |-> NoUser,
                               channel |-> channels[o.ch],
                               members |-> {m[1] : m \in {x \in channelMembers : x[2] = o.ch}}]]
    /\ End(s)
    /\ UNCHANGED <<presenceVars, dbVars, connected, rooms, reqVars, inbox>>

\* ------------------------- addReaction (POST /api/messages/:messageId/reaction)
Emojis == {"thumbsup", "heart"}

ReactionRequest(u, mid, e) ==
    [Request("addReaction", Rest, u, NoChannel, mid, NoContent) EXCEPT !.emoji = e]

\* The message as addReaction returns it: sender and reactedUsers included.
WithReactions(id) ==
    [msg |-> Row(id),
     sender |-> IF Row(id) = NullMsg THEN NoUser ELSE Row(id).senderId,
     reactedUsers |-> {<<r[1], r[3]>> : r \in {x \in reactions : x[2] = id}}]

\* ChannelMember.findOne({ where: { userId, channelId: message.channelId } })
MayReactMutantSenderOnly(u, mid, ch) == Row(mid).senderId = u
MayReact(u, mid, ch) == IsChannelMember(u, ch)

\* What makes the INSERT into message_reactions fail: the message is gone
\* (foreign key), or the table already holds a row of this user for this
\* message.  Message.belongsToMany(User, { through: MessageReaction }) puts a
\* unique key on the pair (messageId, userId) of the through table, whatever
\* the emoji; the model's own unique index covers the triple.
InsertRejectedMutantForeignKeyOnly(u, mid) == Row(mid) = NullMsg
InsertRejected(u, mid) ==
    \/ Row(mid) = NullMsg
    \/ \E r \in reactions : r[1] = u /\ r[2] = mid

\* Message.findByPk(messageId); without a row the handler answers 404.
ToggleArrive(u, mid, e) ==
    /\ IF Row(mid) /= NullMsg
       THEN /\ \E s \in Slots :
                 Arrive(s, [ReactionRequest(u, mid, e) EXCEPT !.ch = Row(mid).channelId],
                        "member")
            /\ UNCHANGED lastReply
       ELSE /\ ArriveAndEnd(ReactionRequest(u, mid, e))
            /\ Reply(ReactionRequest(u, mid, e), 404, "Message not found", NoMsgId)
    /\ UNCHANGED <<presenceVars, dbVars, connected, rooms, inbox>>

\* The membership check; without a row the handler answers 403.
ToggleMember(s) ==
    LET o == ops[s] IN
    /\ o.kind = "addReaction" /\ o.pc = "member"
    /\ IF MayReact(o.user, o.mid, o.ch)
       THEN Goto(s, "existing") /\ UNCHANGED lastReply
       ELSE Reply(o, 403, "Access denied", NoMsgId) /\ End(s)
    /\ UNCHANGED <<presenceVars, dbVars, connected, rooms, reqVars, inbox>>

\* MessageReaction.findOne({ where: { userId, messageId, emoji } })
ToggleFind(s) ==
    LET o == ops[s] IN
    /\ o.kind = "addReaction" /\ o.pc = "existing"
    /\ ops' = [ops EXCEPT ![s].todo = reactions \cap {<<o.user, o.mid, o.emoji>>},
                          ![s].pc = "write"]
    /\ UNCHANGED <<presenceVars, dbVars, connected, rooms, reqVars, inbox, lastReply>>

\* if (existingReaction) MessageReaction.destroy(...) else MessageReaction.create(...);
\* a rejected insert throws into the catch, which answers 500.
ToggleWrite(s) ==
    LET o == ops[s] IN
    /\ o.kind = "addReaction" /\ o.pc = "write"
    /\ IF o.todo /= {}
       THEN /\ reactions' = reactions \ {<<o.user, o.mid, o.emoji>>}
            /\ Goto(s, "populate")
            /\ UNCHANGED lastReply
       ELSE IF InsertRejected(o.user, o.mid)
            THEN /\ Reply(o, 500, "Validation error", NoMsgId)
                 /\ End(s)
                 /\ UNCHANGED reactions
            ELSE /\ reactions' = reactions \cup {<<o.user, o.mid, o.emoji>>}
                 /\ Goto(s, "populate")
                 /\ UNCHANGED lastReply
    /\ UNCHANGED <<presenceVars, membershipVars, messages, nextMsgId, connected, rooms,
                   reqVars, inbox>>

\* Message.findByPk(messageId, include sender and reactedUsers), then 200.
ToggleReply(s) ==
    LET o == ops[s] IN
    /\ o.kind = "addReaction" /\ o.pc = "populate"
    /\ lastReply' = [op |-> o.kind, user |-> o.user, target |-> o.mid,
                     status |-> 200, error |-> "", data |-> WithReactions(o.mid)]
    /\ End(s)
    /\ UNCHANGED <<presenceVars, dbVars, connected, rooms, reqVars, inbox>>

\* ------------------------------------------------------------------- Init
\* The server has just started on a database in which alice has created team
\* t1 (createTeam: owner, admin, #general and #random), bob has joined it by
\* invite (joinTeam) and has left #random (leaveChannel).
SeededDb ==
    /\ teams = [t \in Teams |-> [ownerId |-> "alice", inviteCode |-> 1]]
    /\ teamMembers = {<<"alice", "t1", "admin">>, <<"bob", "t1", "member">>}
    /\ channels = [ch \in ChannelIds |->
                     [teamId |-> "t1", name |-> BeforeSave(ChannelName(ch)),
                      isPrivate |-> FALSE, lastMessageId |-> NoMsgId]]
    /\ channelMembers = {<<"alice", "general">>, <<"bob", "general">>,
                         <<"alice", "random">>}
    /\ messages = {}
    /\ reactions = {}
    /\ nextMsgId = 1

Init ==
    /\ users = [u \in Users |-> [isOnline |-> FALSE, lastSeen |-> 0]]
    /\ pending = {}
    /\ nWrites = 0
    /\ lastIssued = [u \in Users |-> "none"]
    /\ connected = {}
    /\ rooms = [r \in RoomKeys |-> {}]
    /\ SeededDb
    /\ ops = [s \in Slots |-> Idle]
    /\ budget = MaxOps
    /\ lastReq = Idle
    /\ inbox = [c \in Conns |-> <<>>]
    /\ lastReply = NoReply

\* ------------------------------------------------------------------- Next
MsgIdInputs == 1..MaxMsgs

ConnectionNext ==
    \/ \E c \in Conns : Connect(c)
    \/ \E c \in Conns : Disconnect(c)
    \/ PresenceStep

TeamRoomNext == \E c \in Conns, ts \in (SUBSET TeamIdInputs) \ {{}} : JoinTeams(c, ts)

RoomNext ==
    \/ \E c \in Conns, ch \in ChannelIds : JoinChannelArrive(c, ch)
    \/ \E s \in Slots : JoinChannelApply(s)
    \/ \E c \in Conns, ch \in ChannelIds : LeaveChannelRoom(c, ch)

TypingNext == \E c \in Conns, ch \in ChannelIds, b \in BOOLEAN : Typing(c, ch, b)

SendNext ==
    \/ \E o \in Origins, u \in Users, ch \in ChannelIds, x \in PostInputs :
          SendArrive(o, u, ch, x)
    \/ \E s \in Slots : SendCreate(s)
    \/ \E s \in Slots : SendUpdate(s)
    \/ \E s \in Slots : SendPopulate(s)
    \/ \E s \in Slots : SendEmit(s)

EditNext ==
    \/ \E o \in Origins, u \in Users, id \in MsgIdInputs, x \in EditInputs :
          EditArrive(o, u, id, x)
    \/ \E s \in Slots : EditUpdate(s)
    \/ \E s \in Slots : EditPopulate(s)
    \/ \E s \in Slots : EditEmit(s)

DeleteNext ==
    \/ \E o \in Origins, u \in Users, id \in MsgIdInputs : DeleteArrive(o, u, id)
    \/ \E s \in Slots : DeleteDestroy(s)
    \/ \E s \in Slots : DeleteEmit(s)

LeaveNext ==
    \/ \E u \in Users, ch \in ChannelIds : LeaveChannel(u, ch)
    \/ \E u \in Users, t \in Teams : LeaveTeamArrive(u, t)
    \/ \E s \in Slots : LeaveTeamFind(s)
    \/ \E s \in Slots : LeaveTeamDestroy(s)

CreateChannelNext ==
    \/ \E u \in Users, t \in TeamIdInputs, priv \in BOOLEAN : CreateChannelArrive(u, t, priv)
    \/ \E s \in Slots : CreateChannelAdmin(s)
    \/ \E s \in Slots : CreateChannelCreate(s)
    \/ \E s \in Slots : CreateChannelCreator(s)
    \/ \E s \in Slots : CreateChannelFindMembers(s)
    \/ \E s \in Slots : CreateChannelBulk(s)
    \/ \E s \in Slots : CreateChannelReply(s)

JoinTeamNext ==
    \/ \E u \in Users, t \in TeamIdInputs : JoinTeamArrive(u, t)
    \/ \E s \in Slots : JoinTeamExisting(s)
    \/ \E s \in Slots : JoinTeamAdd(s)
    \/ \E s \in Slots : JoinTeamFind(s)
    \/ \E s \in Slots : JoinTeamEach(s)
    \/ \E s \in Slots : JoinTeamReply(s)

JoinChannelNext ==
    \/ \E u \in Users, ch \in AllChannelIds : JoinChannelFind(u, ch)
    \/ \E s \in Slots : JoinChannelTeam(s)
    \/ \E s \in Slots : JoinChannelExisting(s)
    \/ \E s \in Slots : JoinChannelAdd(s)

CreateTeamNext ==
    \/ \E u \in Users, ok \in BOOLEAN : CreateTeamArrive(u, ok)
    \/ \E s \in Slots, ok \in BOOLEAN : CreateTeamSave(s, ok)
    \/ \E s \in Slots, ok \in BOOLEAN : CreateTeamMember(s, ok)
    \/ \E s \in Slots, ok \in BOOLEAN : CreateTeamGeneral(s, ok)
    \/ \E s \in Slots, ok \in BOOLEAN : CreateTeamRandom(s, ok)
    \/ \E s \in Slots, ok \in BOOLEAN : CreateTeamBulk(s, ok)
    \/ \E s \in Slots : CreateTeamReply(s)

InviteNext ==
    \/ \E u \in Users, t \in TeamIdInputs : InviteArrive(u, t)
    \/ \E s \in Slots : InviteAdmin(s)
    \/ \E s \in Slots : InviteSave(s)

HistoryNext ==
    \/ \E u \in Users, ch \in ChannelIds, page \in 0..MaxPage, limit \in 1..MaxLimit :
          HistoryArrive(u, ch, page, limit)
    \/ \E s \in Slots : HistoryFind(s)

ReactionNext ==
    \/ \E u \in Users, id \in MsgIdInputs, e \in Emojis : ToggleArrive(u, id, e)
    \/ \E s \in Slots : ToggleMember(s)
    \/ \E s \in Slots : ToggleFind(s)
    \/ \E s \in Slots : ToggleWrite(s)
    \/ \E s \in Slots : ToggleReply(s)

HandshakeNext == \E c \in Conns, tok \in Tokens : Handshake(c, tok)

AuthNext ==
    \/ \E u \in Users : Login(u)
    \/ \E u \in Users : Logout(u)

Next ==
    \/ ConnectionNext
    \/ TeamRoomNext
    \/ RoomNext
    \/ TypingNext
    \/ SendNext
    \/ EditNext
    \/ DeleteNext
    \/ LeaveNext
    \/ CreateChannelNext
    \/ JoinTeamNext
    \/ JoinChannelNext
    \/ CreateTeamNext
    \/ InviteNext
    \/ HistoryNext
    \/ ReactionNext
    \/ HandshakeNext
    \/ AuthNext
    \/ \E s \in Slots : SendRejected(s)
    \/ \E u \in Users, ch \in ChannelIds : GetChannelArrive(u, ch)
    \/ \E s \in Slots : GetChannelFind(s)

Spec == Init /\ [][Next]_vars

\* ------------------------------------------------------ the specifications
\* Presence: connections open and close, users log in and out.
PresenceNext == ConnectionNext \/ AuthNext
PresenceSpec == Init /\ [][PresenceNext]_vars

\* Chat: alice (k1) and bob (k2) are connected, their online writes have
\* reached the database and both have joined the room of #general; they join
\* and leave rooms, post, edit, delete and leave channels and the team.
ChatInit ==
    /\ users = [u \in Users |-> [isOnline |-> TRUE, lastSeen |-> 0]]
    /\ pending = {}
    /\ nWrites = 2
    /\ lastIssued = [u \in Users |-> "connect"]
    /\ connected = {"k1", "k2"}
    /\ rooms = [r \in RoomKeys |-> IF r = ChannelRoom("general") THEN {"k1", "k2"} ELSE {}]
    /\ SeededDb
    /\ ops = [s \in Slots |-> Idle]
    /\ budget = MaxOps
    /\ lastReq = Idle
    /\ inbox = [c \in Conns |-> <<>>]
    /\ lastReply = NoReply

ChatNext ==
    \/ RoomNext
    \/ SendNext
    \/ EditNext
    \/ DeleteNext
    \/ LeaveNext

ChatSpec == ChatInit /\ [][ChatNext]_vars

\* Close: from the same state, connections close and open again while rooms
\* are joined and left and messages are posted.
SocketPostNext ==
    \/ \E c \in Conns, ch \in ChannelIds : SendArrive(c, TokenUser[c], ch, Hi)
    \/ \E s \in Slots : SendCreate(s)
    \/ \E s \in Slots : SendUpdate(s)
    \/ \E s \in Slots : SendPopulate(s)
    \/ \E s \in Slots : SendEmit(s)

CloseNext ==
    \/ ConnectionNext
    \/ \E c \in Conns, t \in TeamIdInputs : JoinTeams(c, {t})
    \/ \E c \in Conns, ch \in ChannelIds : JoinChannelArrive(c, ch)
    \/ \E s \in Slots : JoinChannelApply(s)
    \/ SocketPostNext

CloseInit ==
    /\ users = [u \in Users |-> [isOnline |-> TRUE, lastSeen |-> 0]]
    /\ pending = {}
    /\ nWrites = 2
    /\ lastIssued = [u \in Users |-> "connect"]
    /\ connected = {"k1", "k2"}
    /\ rooms = [r \in RoomKeys |-> IF r = ChannelRoom("general") THEN {"k1", "k2"} ELSE {}]
    /\ SeededDb
    /\ ops = [s \in Slots |-> Idle]
    /\ budget = MaxCloseOps
    /\ lastReq = Idle
    /\ inbox = [c \in Conns |-> <<>>]
    /\ lastReply = NoReply

CloseSpec == CloseInit /\ [][CloseNext]_vars

\* Reactions: from the state of Chat in which alice has posted "hi" to #general
\* and to #random over REST (POST /api/messages, which emits nothing), users
\* toggle reactions and leave channels.
ReactInit ==
    /\ users = [u \in Users |-> [isOnline |-> TRUE, lastSeen |-> 0]]
    /\ pending = {}
    /\ nWrites = 2
    /\ lastIssued = [u \in Users |-> "connect"]
    /\ connected = {"k1", "k2"}
    /\ rooms = [r \in RoomKeys |-> IF r = ChannelRoom("general") THEN {"k1", "k2"} ELSE {}]
    /\ teams = [t \in Teams |-> [ownerId |-> "alice", inviteCode |-> 1]]
    /\ teamMembers = {<<"alice", "t1", "admin">>, <<"bob", "t1", "member">>}
    /\ channels = [ch \in ChannelIds |->
                     [teamId |-> "t1", name |-> BeforeSave(ChannelName(ch)),
                      isPrivate |-> FALSE,
                      lastMessageId |-> IF ch = "general" THEN 1 ELSE 2]]
    /\ channelMembers = {<<"alice", "general">>, <<"bob", "general">>,
                         <<"alice", "random">>}
    /\ messages = {[id |-> 1, senderId |-> "alice", channelId |-> "general",
                    teamId |-> "t1", content |-> Hi, editedAt |-> 0],
                   [id |-> 2, senderId |-> "alice", channelId |-> "random",
                    teamId |-> "t1", content |-> Hi, editedAt |-> 0]}
    /\ reactions = {}
    /\ nextMsgId = 3
    /\ ops = [s \in Slots |-> Idle]
    /\ budget = MaxOps
    /\ lastReq = Idle
    /\ inbox = [c \in Conns |-> <<>>]
    /\ lastReply = NoReply

ReactNext ==
    \/ ReactionNext
    \/ \E u \in Users, ch \in ChannelIds : LeaveChannel(u, ch)

ReactSpec == ReactInit /\ [][ReactNext]_vars

\* Teams: the server has started on a database in which alice has created team
\* t1 (createTeam: owner, admin, #general and #random with her in both) and bob
\* has an account; users create channels, join the team by its invite code,
\* join channels and leave channels and the team.
TeamInit ==
    /\ users = [u \in Users |-> [isOnline |-> FALSE, lastSeen |-> 0]]
    /\ pending = {}
    /\ nWrites = 0
    /\ lastIssued = [u \in Users |-> "none"]
    /\ connected = {}
    /\ rooms = [r \in RoomKeys |-> {}]
    /\ teams = [t \in Teams |-> [ownerId |-> "alice", inviteCode |-> 1]]
    /\ teamMembers = {<<"alice", "t1", "admin">>}
    /\ channels = [ch \in ChannelIds |->
                     [teamId |-> "t1", name |-> BeforeSave(ChannelName(ch)),
                      isPrivate |-> FALSE, lastMessageId |-> NoMsgId]]
    /\ channelMembers = {<<"alice", "general">>, <<"alice", "random">>}
    /\ messages = {}
    /\ reactions = {}
    /\ nextMsgId = 1
    /\ ops = [s \in Slots |-> Idle]
    /\ budget = MaxOps
    /\ lastReq = Idle
    /\ inbox = [c \in Conns |-> <<>>]
    /\ lastReply = NoReply

TeamNext ==
    \/ CreateChannelNext
    \/ JoinTeamNext
    \/ JoinChannelNext
    \/ \E u \in Users, ch \in AllChannelIds : LeaveChannel(u, ch)
    \/ \E u \in Users, t \in Teams : LeaveTeamArrive(u, t)
    \/ \E s \in Slots : LeaveTeamFind(s)
    \/ \E s \in Slots : LeaveTeamDestroy(s)

TeamSpec == TeamInit /\ [][TeamNext]_vars

\* Typing: from the state of Chat, with alice's second client k3 connected as
\* well, connections join and leave channel rooms and send typing events.
TypingInit ==
    /\ users = [u \in Users |-> [isOnline |-> TRUE, lastSeen |-> 0]]
    /\ pending = {}
    /\ nWrites = 3
    /\ lastIssued = [u \in Users |-> "connect"]
    /\ connected = Conns
    /\ rooms = [r \in RoomKeys |-> IF r = ChannelRoom("general") THEN {"k1", "k2"} ELSE {}]
    /\ SeededDb
    /\ ops = [s \in Slots |-> Idle]
    /\ budget = MaxOps
    /\ lastReq = Idle
    /\ inbox = [c \in Conns |-> <<>>]
    /\ lastReply = NoReply

TypingRoomsNext == RoomNext \/ TypingNext

TypingSpec == TypingInit /\ [][TypingRoomsNext]_vars

\* Organisation: from the state of Teams, users create teams and channels,
\* draw new invite codes and join team t1 by its code.
OrgNext ==
    \/ CreateTeamNext
    \/ InviteNext
    \/ CreateChannelNext
    \/ JoinTeamNext

OrgSpec == TeamInit /\ [][OrgNext]_vars

\* Leaving: after the state of Teams bob has created team t2 (channels c3 and
\* c4), has joined t1 by its code, alice has created the private channel c5 in
\* t1 and bob has joined it (joinChannel); users leave teams and channels and
\* join channels.
LeaveInit ==
    /\ users = [u \in Users |-> [isOnline |-> FALSE, lastSeen |-> 0]]
    /\ pending = {}
    /\ nWrites = 0
    /\ lastIssued = [u \in Users |-> "none"]
    /\ connected = {}
    /\ rooms = [r \in RoomKeys |-> {}]
    /\ teams = [t \in {"t1", "t2"} |->
                  IF t = "t1" THEN [ownerId |-> "alice", inviteCode |-> 1]
                              ELSE [ownerId |-> "bob", inviteCode |-> 2]]
    /\ teamMembers = {<<"alice", "t1", "admin">>, <<"bob", "t2", "admin">>,
                      <<"bob", "t1", "member">>}
    /\ channels = [ch \in AllChannelIds |->
                     [teamId |-> IF ch \in {"c3", "c4"} THEN "t2" ELSE "t1",
                      name |-> BeforeSave(ChannelName(
                                 IF ch \in {"general", "c3"} THEN "general"
                                 ELSE IF ch \in {"random", "c4"} THEN "random"
                                 ELSE "topic")),
                      isPrivate |-> (ch = "c5"),
                      lastMessageId |-> NoMsgId]]
    /\ channelMembers = {<<"alice", "general">>, <<"alice", "random">>, <<"alice", "c5">>,
                         <<"bob", "c3">>, <<"bob", "c4">>,
                         <<"bob", "general">>, <<"bob", "random">>, <<"bob", "c5">>}
    /\ messages = {}
    /\ reactions = {}
    /\ nextMsgId = 1
    /\ ops = [s \in Slots |-> Idle]
    /\ budget = MaxOps
    /\ lastReq = Idle
    /\ inbox = [c \in Conns |-> <<>>]
    /\ lastReply = NoReply

LeaveTeamsNext ==
    \/ \E u \in Users, t \in AllTeamIds : LeaveTeamArrive(u, t)
    \/ \E s \in Slots : LeaveTeamFind(s)
    \/ \E s \in Slots : LeaveTeamDestroy(s)
    \/ \E u \in Users, ch \in AllChannelIds : LeaveChannel(u, ch)
    \/ JoinChannelNext

LeaveSpec == LeaveInit /\ [][LeaveTeamsNext]_vars

\* History: from the state of Chat in which alice has posted HistoryMsgs
\* messages to #general over REST, alice reads pages of #general and deletes
\* messages, and bob asks for pages of #random, of which he is no member.
HistoryInit ==
    /\ users = [u \in Users |-> [isOnline |-> TRUE, lastSeen |-> 0]]
    /\ pending = {}
    /\ nWrites = 2
    /\ lastIssued = [u \in Users |-> "connect"]
    /\ connected = {"k1", "k2"}
    /\ rooms = [r \in RoomKeys |-> IF r = ChannelRoom("general") THEN {"k1", "k2"} ELSE {}]
    /\ teams = [t \in Teams |-> [ownerId |-> "alice", inviteCode |-> 1]]
    /\ teamMembers = {<<"alice", "t1", "admin">>, <<"bob", "t1", "member">>}
    /\ channels = [ch \in ChannelIds |->
                     [teamId |-> "t1", name |-> BeforeSave(ChannelName(ch)),
                      isPrivate |-> FALSE,
                      lastMessageId |-> IF ch = "general" THEN HistoryMsgs ELSE NoMsgId]]
    /\ channelMembers = {<<"alice", "general">>, <<"bob", "general">>,
                         <<"alice", "random">>}
    /\ messages = {[id |-> i, senderId |-> "alice", channelId |-> "general",
                    teamId |-> "t1", content |-> Hi, editedAt |-> 0] : i \in 1..HistoryMsgs}
    /\ reactions = {}
    /\ nextMsgId = HistoryMsgs + 1
    /\ ops = [s \in Slots |-> Idle]
    /\ budget = MaxOps
    /\ lastReq = Idle
    /\ inbox = [c \in Conns |-> <<>>]
    /\ lastReply = NoReply

HistoryReadNext ==
    \/ \E page \in 0..MaxPage, limit \in 1..MaxLimit :
          \/ HistoryArrive("alice", "general", page, limit)
          \/ HistoryArrive("bob", "random", page, limit)
    \/ \E s \in Slots : HistoryFind(s)
    \/ \E id \in 1..(HistoryMsgs - 1) : DeleteArrive(Rest, "alice", id)
    \/ \E s \in Slots : DeleteDestroy(s)

HistorySpec == HistoryInit /\ [][HistoryReadNext]_vars

\* Posts: from the state of Chat, users post and edit, with contents of every
\* kind, over their sockets and over REST.
PostNext ==
    \/ \E o \in Origins, u \in Users, ch \in ChannelIds, x \in ContentInputs :
          SendArrive(o, u, ch, x)
    \/ \E s \in Slots : SendCreate(s)
    \/ \E s \in Slots : SendUpdate(s)
    \/ \E s \in Slots : SendPopulate(s)
    \/ \E s \in Slots : SendEmit(s)
    \/ \E o \in Origins, u \in Users, id \in MsgIdInputs, x \in ContentInputs :
          EditArrive(o, u, id, x)
    \/ \E s \in Slots : EditUpdate(s)
    \/ \E s \in Slots : EditPopulate(s)
    \/ \E s \in Slots : EditEmit(s)

PostSpec == ChatInit /\ [][PostNext]_vars

\* Handshakes: on the freshly started server clients open sockets with good
\* and bad tokens, join team rooms, type and close.
HandshakeInit ==
    /\ users = [u \in Users |-> [isOnline |-> FALSE, lastSeen |-> 0]]
    /\ pending = {}
    /\ nWrites = 0
    /\ lastIssued = [u \in Users |-> "none"]
    /\ connected = {}
    /\ rooms = [r \in RoomKeys |-> {}]
    /\ SeededDb
    /\ ops = [s \in Slots |-> Idle]
    /\ budget = MaxOps + 1
    /\ lastReq = Idle
    /\ inbox = [c \in Conns |-> <<>>]
    /\ lastReply = NoReply

HandshakeRoomsNext ==
    \/ HandshakeNext
    \/ \E c \in Conns : Disconnect(c)
    \/ PresenceStep
    \/ \E c \in Conns, t \in TeamIdInputs : JoinTeams(c, {t})
    \/ \E c \in Conns, ch \in ChannelIds : Typing(c, ch, TRUE)

HandshakeSpec == HandshakeInit /\ [][HandshakeRoomsNext]_vars


\* Threads: from the state of Chat in which bob and then alice have posted "hi"
\* to #general over REST (POST /api/messages, which emits nothing), users edit
\* messages, delete the older one and leave channels and the team.
ThreadInit ==
    /\ users = [u \in Users |-> [isOnline |-> TRUE, lastSeen |-> 0]]
    /\ pending = {}
    /\ nWrites = 2
    /\ lastIssued = [u \in Users |-> "connect"]
    /\ connected = {"k1", "k2"}
    /\ rooms = [r \in RoomKeys |-> IF r = ChannelRoom("general") THEN {"k1", "k2"} ELSE {}]
    /\ teams = [t \in Teams |-> [ownerId |-> "alice", inviteCode |-> 1]]
    /\ teamMembers = {<<"alice", "t1", "admin">>, <<"bob", "t1", "member">>}
    /\ channels = [ch \in ChannelIds |->
                     [teamId |-> "t1", name |-> BeforeSave(ChannelName(ch)),
                      isPrivate |-> FALSE,
                      lastMessageId |-> IF ch = "general" THEN 2 ELSE NoMsgId]]
    /\ channelMembers = {<<"alice", "general">>, <<"bob", "general">>,
                         <<"alice", "random">>}
    /\ messages = {[id |-> 1, senderId |-> "bob", channelId |-> "general",
                    teamId |-> "t1", content |-> Hi, editedAt |-> 0],
                   [id |-> 2, senderId |-> "alice", channelId |-> "general",
                    teamId |-> "t1", content |-> Hi, editedAt |-> 0]}
    /\ reactions = {}
    /\ nextMsgId = 3
    /\ ops = [s \in Slots |-> Idle]
    /\ budget = MaxOps
    /\ lastReq = Idle
    /\ inbox = [c \in Conns |-> <<>>]
    /\ lastReply = NoReply

ThreadNext ==
    \/ EditNext
    \/ \E o \in Origins, u \in Users : DeleteArrive(o, u, 1)
    \/ \E s \in Slots : DeleteDestroy(s)
    \/ \E s \in Slots : DeleteEmit(s)
    \/ LeaveNext

ThreadSpec == ThreadInit /\ [][ThreadNext]_vars


\* Outage: from the state of Chat, connections post while the database may
\* reject a statement of a handler in flight.
OutageNext ==
    \/ SocketPostNext
    \/ \E s \in Slots : SendRejected(s)

OutageSpec == ChatInit /\ [][OutageNext]_vars


\* Channel.belongsTo(Message, { foreignKey: 'lastMessageId' }): a channel row
\* that names a message which is not in the table.
Dangling(chs, msgs) ==
    \E ch \in DOMAIN chs :
       /\ chs[ch].lastMessageId /= NoMsgId
       /\ ~\E m \in msgs : m.id = chs[ch].lastMessageId

\* Pointer: from the state of Chat, users post and delete.  Only the runs are
\* followed in which no statement leaves a channel naming a missing message:
\* in them it makes no difference whether the database enforces the reference
\* of channels.lastMessageId or not.
PointerNext ==
    \/ \E o \in Origins, u \in Users, ch \in ChannelIds, x \in PostInputs :
          SendArrive(o, u, ch, x)
    \/ \E s \in Slots : SendCreate(s)
    \/ \E s \in Slots : SendUpdate(s) /\ ~Dangling(channels', messages')
    \/ \E s \in Slots : SendPopulate(s)
    \/ \E s \in Slots : SendEmit(s)
    \/ \E o \in Origins, u \in Users, id \in MsgIdInputs : DeleteArrive(o, u, id)
    \/ \E s \in Slots : DeleteDestroy(s) /\ ~Dangling(channels', messages')
    \/ \E s \in Slots : DeleteEmit(s)

PointerSpec == ChatInit /\ [][PointerNext]_vars


\* Toggles: from the state of Reactions in which bob has reacted to alice's
\* message in #general with a thumbs-up, users toggle reactions.
ToggledInit ==
    /\ users = [u \in Users |-> [isOnline |-> TRUE, lastSeen |-> 0]]
    /\ pending = {}
    /\ nWrites = 2
    /\ lastIssued = [u \in Users |-> "connect"]
    /\ connected = {"k1", "k2"}
    /\ rooms = [r \in RoomKeys |-> IF r = ChannelRoom("general") THEN {"k1", "k2"} ELSE {}]
    /\ teams = [t \in Teams |-> [ownerId |-> "alice", inviteCode |-> 1]]
    /\ teamMembers = {<<"alice", "t1", "admin">>, <<"bob", "t1", "member">>}
    /\ channels = [ch \in ChannelIds |->
                     [teamId |-> "t1", name |-> BeforeSave(ChannelName(ch)),
                      isPrivate |-> FALSE,
                      lastMessageId |-> IF ch = "general" THEN 1 ELSE 2]]
    /\ channelMembers = {<<"alice", "general">>, <<"bob", "general">>,
                         <<"alice", "random">>}
    /\ messages = {[id |-> 1, senderId |-> "alice", channelId |-> "general",
                    teamId |-> "t1", content |-> Hi, editedAt |-> 0],
                   [id |-> 2, senderId |-> "alice", channelId |-> "random",
                    teamId |-> "t1", content |-> Hi, editedAt |-> 0]}
    /\ reactions = {<<"bob", 1, "thumbsup">>}
    /\ nextMsgId = 3
    /\ ops = [s \in Slots |-> Idle]
    /\ budget = MaxOps
    /\ lastReq = Idle
    /\ inbox = [c \in Conns |-> <<>>]
    /\ lastReply = NoReply

ToggleSpec == ToggledInit /\ [][ReactionNext]_vars


\* Subscriptions: from the state of Chat, connections send join-teams and
\* users leave the team.
SubscribeNext ==
    \/ TeamRoomNext
    \/ \E u \in Users, t \in Teams : LeaveTeamArrive(u, t)
    \/ \E s \in Slots : LeaveTeamFind(s)
    \/ \E s \in Slots : LeaveTeamDestroy(s)

SubscribeSpec == ChatInit /\ [][SubscribeNext]_vars


\* Reads: from the state of Threads, users read channels and pages of their
\* messages and leave channels and the team.
ReadNext ==
    \/ \E u \in Users, ch \in ChannelIds, limit \in 1..MaxLimit :
          HistoryArrive(u, ch, 1, limit)
    \/ \E s \in Slots : HistoryFind(s)
    \/ \E u \in Users, ch \in ChannelIds : GetChannelArrive(u, ch)
    \/ \E s \in Slots : GetChannelFind(s)
    \/ LeaveNext

ReadSpec == ThreadInit /\ [][ReadNext]_vars

\* ---------------------------------------------------------------- claims
IsMessageEvent(e, type) == e.type = type /\ e.data.msg.id /= NoMsgId

\* C1: the new-message events of one channel reach every connection in one
\* order, the order in which their rows were committed (ids are commit ranks):
\* no connection receives a later-committed message of a channel before an
\* earlier-committed one.
C1_BroadcastOrderIsCommitOrder ==
    \A c \in Conns : \A i, j \in 1..Len(inbox[c]) :
        (/\ i < j
         /\ IsMessageEvent(inbox[c][i], "new-message")
         /\ IsMessageEvent(inbox[c][j], "new-message")
         /\ inbox[c][i].data.msg.channelId = inbox[c][j].data.msg.channelId)
        => inbox[c][i].data.msg.id < inbox[c][j].data.msg.id

\* C2: when a post is answered with success, every connection subscribed to
\* the channel's room has already been sent the new-message event carrying
\* the populated message.  Stated for the step in which POST /api/messages
\* answers 201.
C2_PostBroadcastBeforeSuccess ==
    [][\A s \in Slots :
         (SendPopulate(s) /\ ops[s].origin = Rest /\ lastReply'.status = 201)
         => \A c \in Audience(ChannelRoom(ops[s].ch)) :
              \E i \in 1..Len(inbox'[c]) :
                 /\ inbox'[c][i].type = "new-message"
                 /\ inbox'[c][i].data = lastReply'.data]_vars

OnlyErrorTo(c, text) ==
    inbox' = [inbox EXCEPT ![c] = Append(@, ErrorEvent(text))]

\* C3: a send-message of a connection whose user has no channel_members row
\* for the channel (any more) is answered with the error 'Access denied' to
\* that connection alone, creates no row, moves no last-message pointer,
\* leaves no handler behind that could broadcast, and the connection's room
\* subscriptions stay as they are; leaveChannel and leaveTeam, which remove the
\* row, do not touch the rooms either.
C3_RemovedMemberRejected ==
    [][/\ \A c \in Conns, ch \in ChannelIds, x \in PostInputs :
            (SendArrive(c, TokenUser[c], ch, x) /\ <<TokenUser[c], ch>> \notin channelMembers)
            => /\ OnlyErrorTo(c, "Access denied")
               /\ messages' = messages
               /\ nextMsgId' = nextMsgId
               /\ channels' = channels
               /\ ops' = ops
               /\ rooms' = rooms
       /\ channelMembers' /= channelMembers => rooms' = rooms]_vars

\* bob's connection is still in the room of #general, bob's membership row is
\* gone, and his send-message has just been refused.
C3_Witness ==
    /\ "k2" \in rooms[ChannelRoom("general")]
    /\ <<"bob", "general">> \notin channelMembers
    /\ lastReq.kind = "send-message" /\ lastReq.origin = "k2" /\ lastReq.ch = "general"
    /\ Len(inbox["k2"]) > 0
    /\ inbox["k2"][Len(inbox["k2"])] = ErrorEvent("Access denied")
    /\ messages = {}

NotOwn(id, u) == ~\E m \in messages : m.id = id /\ m.senderId = u

\* C4: an edit or a delete (socket or REST) of a message id that is not a
\* message of the caller, whether the id belongs to somebody else's message or
\* to none, gets the one answer 'Message not found' (404 over REST), leaves the
\* messages table as it is, reaches no other connection and leaves no handler
\* behind that could broadcast.
C4_ForeignEditIsNotFound ==
    [][\A o \in Origins, u \in Users, id \in MsgIdInputs :
         (/\ (\E x \in EditInputs : EditArrive(o, u, id, x)) \/ DeleteArrive(o, u, id)
          /\ NotOwn(id, u))
         => /\ messages' = messages
            /\ ops' = ops
            /\ IF o = Rest
               THEN /\ lastReply'.status = 404
                    /\ lastReply'.error = "Message not found"
                    /\ inbox' = inbox
               ELSE /\ OnlyErrorTo(o, "Message not found")
                    /\ lastReply' = lastReply]_vars

\* The last request was an edit or delete of somebody else's message, which is
\* still stored unedited, and it was answered 'Message not found'.
C4_Witness ==
    /\ lastReq.kind \in {"editMessage", "deleteMessage", "edit-message", "delete-message"}
    /\ \E m \in messages :
         /\ m.id = lastReq.mid
         /\ m.senderId /= lastReq.user
         /\ m.editedAt = 0
         /\ m.content = Hi
    /\ IF lastReq.origin = Rest
       THEN lastReply.op = lastReq.kind /\ lastReply.status = 404
       ELSE /\ Len(inbox[lastReq.origin]) > 0
            /\ inbox[lastReq.origin][Len(inbox[lastReq.origin])]
                 = ErrorEvent("Message not found")

SocketErrors == {"Access denied", "Message not found", "Failed to send message",
                 "Failed to edit message", "Failed to delete message"}

\* C5: a socket send-message, edit-message or delete-message that fails its
\* membership or ownership check, or whose content fails validation, emits one
\* error event to the connection it came from and nothing to anybody else, and
\* its handler ends there; and whenever an error event is delivered, no other
\* connection receives anything in that step.
C5_ErrorsToOriginOnly ==
    [][/\ \A c \in Conns, ch \in ChannelIds, x \in PostInputs :
            (SendArrive(c, TokenUser[c], ch, x) /\ <<TokenUser[c], ch>> \notin channelMembers)
            => (\E t \in SocketErrors : OnlyErrorTo(c, t)) /\ ops' = ops
       /\ \A c \in Conns, id \in MsgIdInputs :
            (/\ (\E x \in EditInputs : EditArrive(c, TokenUser[c], id, x))
                   \/ DeleteArrive(c, TokenUser[c], id)
             /\ NotOwn(id, TokenUser[c]))
            => (\E t \in SocketErrors : OnlyErrorTo(c, t)) /\ ops' = ops
       /\ \A s \in Slots :
            (/\ SendCreate(s) \/ EditUpdate(s)
             /\ ops[s].origin \in Conns
             /\ ~ValidContent(ops[s].content))
            => /\ \E t \in SocketErrors : OnlyErrorTo(ops[s].origin, t)
               /\ ops'[s] = Idle
               /\ messages' = messages
       /\ \A c \in Conns :
            (Len(inbox'[c]) > Len(inbox[c]) /\ inbox'[c][Len(inbox'[c])].type = "error")
            => \A d \in Conns \ {c} : inbox'[d] = inbox[d]]_vars

\* alice's over-long post has failed validation: she has the error, and bob,
\* subscribed to the room of the channel, has received nothing.
C5_Witness ==
    /\ lastReq.kind = "send-message" /\ lastReq.origin = "k1"
    /\ lastReq.content = TooLong
    /\ inbox["k1"] = <<ErrorEvent("Failed to send message")>>
    /\ "k2" \in rooms[ChannelRoom(lastReq.ch)]
    /\ inbox["k2"] = <<>>

\* C6: a join-channel for a channel the connection's user has no membership
\* row for changes no room and leaves no handler behind that could join later;
\* and a channel's events are delivered to connections in its room only.
C6_DeniedJoinKeepsRooms ==
    [][/\ \A c \in Conns, ch \in ChannelIds :
            (JoinChannelArrive(c, ch) /\ <<TokenUser[c], ch>> \notin channelMembers)
            => rooms' = rooms /\ ops' = ops
       /\ \A s \in Slots :
            (SendEmit(s) \/ EditEmit(s) \/ DeleteEmit(s))
            => \A c \in Conns \ rooms[ChannelRoom(ops[s].ch)] : inbox'[c] = inbox[c]]_vars

\* bob, no member of #random, has asked to join it; his connection is not in
\* its room.
C6_Witness ==
    /\ lastReq.kind = "join-channel" /\ lastReq.origin = "k2" /\ lastReq.ch = "random"
    /\ <<"bob", "random">> \notin channelMembers
    /\ "k2" \notin rooms[ChannelRoom("random")]
    /\ \A s \in Slots : ops[s].kind /= "join-channel"

\* C7: a join-channel for a channel the connection's user is no member of is
\* answered with an error event to that connection.
C7_DeniedJoinIsAnswered ==
    [][\A c \in Conns, ch \in ChannelIds :
         (JoinChannelArrive(c, ch) /\ <<TokenUser[c], ch>> \notin channelMembers)
         => /\ Len(inbox'[c]) = Len(inbox[c]) + 1
            /\ inbox'[c][Len(inbox'[c])].type = "error"]_vars

\* C8: in every state in which no presence write of a user is still on its
\* way, a user with an open connection is recorded as online.
C8_OnlineWhileConnected ==
    \A u \in Users :
        (OpenConns(u) /= {} /\ PendingOf(u) = {}) => users[u].isOnline

\* C9: the step in which a connection closes takes it out of every team room
\* and channel room, changes no team, channel or membership row and delivers
\* nothing; and no event is ever delivered to a connection that is closed.
C9_DisconnectLeavesRoomsOnly ==
    [][/\ \A c \in Conns :
            Disconnect(c)
            => /\ \A r \in RoomKeys : c \notin rooms'[r]
               /\ membershipVars' = membershipVars
               /\ inbox' = inbox
       /\ \A c \in Conns \ connected : inbox'[c] = inbox[c]]_vars

\* bob's connection has closed and is in no room; alice's connection has since
\* received a new message of #general that bob's has not; bob's membership rows
\* are all there.
C9_Witness ==
    /\ "k2" \notin connected
    /\ \A r \in RoomKeys : "k2" \notin rooms[r]
    /\ \E i \in 1..Len(inbox["k1"]) :
         /\ IsMessageEvent(inbox["k1"][i], "new-message")
         /\ inbox["k1"][i].data.msg.channelId = "general"
    /\ inbox["k2"] = <<>>
    /\ <<"bob", "general">> \in channelMembers
    /\ <<"bob", "t1", "member">> \in teamMembers

\* C10: once a user's last connection has closed, the disconnect handler's
\* write being the latest presence write issued for the user, and no presence
\* write of the user is still on its way, the user is recorded offline with
\* lastSeen stamped.
C10_OfflineAfterLastDisconnect ==
    \A u \in Users :
        (OpenConns(u) = {} /\ PendingOf(u) = {} /\ lastIssued[u] = "disconnect")
        => ~users[u].isOnline /\ users[u].lastSeen /= 0

\* C11: a toggle whose lookup is still true of the table when it writes (no
\* other request changed its triple in between, as when each call completes
\* before the next starts) flips exactly its own triple: present becomes
\* absent, absent becomes present, and every other reaction row stays.  Twice
\* is then the identity and an odd number of times from absent leaves it
\* present.
C11_ToggleFlipsOwnTriple ==
    [][\A s \in Slots :
         (/\ ToggleWrite(s)
          /\ (ops[s].todo /= {}) = (<<ops[s].user, ops[s].mid, ops[s].emoji>> \in reactions))
         => reactions' =
              IF <<ops[s].user, ops[s].mid, ops[s].emoji>> \in reactions
              THEN reactions \ {<<ops[s].user, ops[s].mid, ops[s].emoji>>}
              ELSE reactions \cup {<<ops[s].user, ops[s].mid, ops[s].emoji>>}]_vars

\* C18: when a toggle is answered with success, every connection subscribed to
\* the room of the message's channel has been sent an event carrying the
\* message with its current reactions.
C18_ToggleBroadcastsMessage ==
    [][\A s \in Slots :
         ToggleReply(s)
         => \A c \in Audience(ChannelRoom(ops[s].ch)) :
              \E i \in 1..Len(inbox'[c]) : inbox'[c][i].data = lastReply'.data]_vars

\* C19: the authorization of a toggle looks at the caller's membership row for
\* the message's channel and at nothing else: with the row the handler goes on
\* to its lookup, sender or not; without it the handler ends with 403 'Access
\* denied' and the reactions stay as they are.
C19_ReactionNeedsMembershipOnly ==
    [][\A s \in Slots :
         ToggleMember(s)
         => IF <<ops[s].user, ops[s].ch>> \in channelMembers
            THEN /\ ops'[s] = [ops[s] EXCEPT !.pc = "existing"]
                 /\ lastReply' = lastReply
            ELSE /\ ops'[s] = Idle
                 /\ lastReply'.status = 403
                 /\ lastReply'.error = "Access denied"
                 /\ reactions' = reactions]_vars

\* bob, a member of #general, has reacted to alice's message there; his toggle
\* on her message in #random, where he has no row, has just been refused and
\* that message has no reaction.
C19_Witness ==
    /\ \E e \in Emojis : <<"bob", 1, e>> \in reactions
    /\ Row(1).senderId = "alice"
    /\ lastReq.kind = "addReaction" /\ lastReq.user = "bob" /\ lastReq.mid = 2
    /\ lastReply.op = "addReaction" /\ lastReply.status = 403
    /\ \A r \in reactions : r[2] /= 2
    /\ \A s \in Slots : ops[s] = Idle

\* C20: a typing event of a connection for a channel appends one user-typing
\* event {userId, username, isTyping} of the sender's user to the inbox of
\* every connection in the channel's room other than the sender, and changes
\* the inbox of no other connection, the sender's included.
C20_TypingToRoomButSender ==
    [][\A c \in Conns, ch \in ChannelIds, b \in BOOLEAN :
         Typing(c, ch, b)
         => /\ \A d \in (rooms[ChannelRoom(ch)] \cap connected) \ {c} :
                 /\ Len(inbox'[d]) = Len(inbox[d]) + 1
                 /\ SubSeq(inbox'[d], 1, Len(inbox[d])) = inbox[d]
                 /\ inbox'[d][Len(inbox'[d])].type = "user-typing"
                 /\ inbox'[d][Len(inbox'[d])].data =
                       [userId |-> TokenUser[c], username |-> TokenUser[c], isTyping |-> b]
            /\ inbox'[c] = inbox[c]
            /\ \A d \in Conns \ rooms[ChannelRoom(ch)] : inbox'[d] = inbox[d]]_vars

\* alice's client k1 has said it is typing in #general: bob's k2, in the room,
\* has the event; k1 itself, in the room too, has nothing, and neither has
\* alice's other client k3, which is outside the room.
C20_Witness ==
    /\ lastReq.kind = "typing" /\ lastReq.origin = "k1" /\ lastReq.ch = "general"
    /\ {"k1", "k2"} \subseteq rooms[ChannelRoom("general")]
    /\ "k3" \in connected /\ "k3" \notin rooms[ChannelRoom("general")]
    /\ Len(inbox["k2"]) = 1
    /\ inbox["k2"][1].type = "user-typing"
    /\ inbox["k2"][1].data.userId = "alice"
    /\ inbox["k1"] = <<>>
    /\ inbox["k3"] = <<>>

\* C16: a successful edit stores the new content with editedAt set, and when
\* it is done (the socket handler has emitted, the REST handler has answered
\* 200) every connection subscribed to the room of the message's channel has
\* been sent a message-edited event carrying the updated message.
C16_EditStoredAndBroadcast ==
    [][\A s \in Slots :
         /\ (EditUpdate(s) /\ ValidContent(ops[s].content))
            => \A m \in messages' :
                 m.id = ops[s].mid => m.content = ops[s].content /\ m.editedAt /= 0
         /\ (EditEmit(s) \/ (EditPopulate(s) /\ ops[s].origin = Rest))
            => \A c \in Audience(ChannelRoom(ops[s].ch)) :
                 \E i \in 1..Len(inbox'[c]) :
                    /\ inbox'[c][i].type = "message-edited"
                    /\ inbox'[c][i].data = Populated(ops[s].mid)]_vars

\* C17: a successful delete removes the row, so that no message of the channel
\* has its id any more, and when it is done (the socket handler has emitted,
\* the REST handler has answered 200) every connection subscribed to the room
\* of the message's channel has been sent a message-deleted event carrying the
\* id and nothing else.
C17_DeleteRemovedAndBroadcast ==
    [][\A s \in Slots :
         /\ DeleteDestroy(s) => \A m \in messages' : m.id /= ops[s].mid
         /\ (DeleteEmit(s) \/ (DeleteDestroy(s) /\ ops[s].origin = Rest))
            => \A c \in Audience(ChannelRoom(ops[s].ch)) :
                 \E i \in 1..Len(inbox'[c]) :
                    inbox'[c][i] = Event("message-deleted", IdPayload(ops[s].mid), "")]_vars

C13_CreateChannelMembers ==
    [][\A s \in Slots :
         /\ CreateChannelCreate(s)
            => \A p \in channelMembers' : p[2] /= ops'[s].ch
         /\ (CreateChannelCreator(s) /\ <<ops[s].user, ops[s].ch>> \notin channelMembers)
            => /\ channelMembers' = channelMembers \cup {<<ops[s].user, ops[s].ch>>}
               /\ ops'[s].pc = IF ops[s].isPrivate THEN "populate" ELSE "findMembers"
         /\ CreateChannelFindMembers(s)
            => ops'[s].todo = {m[1] : m \in {x \in teamMembers : x[2] = ops[s].team}}
         /\ (/\ CreateChannelBulk(s)
             /\ \A u \in ops[s].todo \ {ops[s].user} : <<u, ops[s].ch>> \notin channelMembers)
            => /\ channelMembers' =
                    channelMembers \cup {<<u, ops[s].ch>> : u \in ops[s].todo \ {ops[s].user}}
               /\ ops'[s].pc = "populate"
         /\ CreateChannelReply(s) => channelMembers' = channelMembers]_vars

\* alice has created the non-private channel c3 in t1 after bob joined: its
\* members are alice and bob, the members of the team.
C13_Witness ==
    /\ lastReq.kind = "createChannel" /\ lastReq.user = "alice"
    /\ lastReply.op = "createChannel" /\ lastReply.status = 201
    /\ "c3" \in DOMAIN channels
    /\ {m[1] : m \in teamMembers} = {"alice", "bob"}
    /\ ~channels["c3"].isPrivate
    /\ {p[1] : p \in {q \in channelMembers : q[2] = "c3"}} = {"alice", "bob"}

\* C14: joinTeam adds the caller's team_members row with role member and no
\* other, then reads the non-private channels the team has at that time and
\* adds the caller's row for each of them, one at a time, and for no other
\* channel: no step of joinTeam adds a row for a private channel, and it
\* answers 200 only when every channel it read has been served.
C14_JoinTeamCascade ==
    [][\A s \in Slots :
         /\ (JoinTeamAdd(s) /\ ~\E m \in teamMembers : m[1] = ops[s].user /\ m[2] = ops[s].team)
            => teamMembers' = teamMembers \cup {<<ops[s].user, ops[s].team, "member">>}
         /\ JoinTeamFind(s)
            => ops'[s].todo = {ch \in DOMAIN channels :
                                 channels[ch].teamId = ops[s].team /\ ~channels[ch].isPrivate}
         /\ JoinTeamEach(s)
            => \/ /\ channelMembers' = channelMembers
                  /\ lastReply'.status = 500
                  /\ ops'[s] = Idle
               \/ \E ch \in ops[s].todo :
                    /\ ~channels[ch].isPrivate
                    /\ channels[ch].teamId = ops[s].team
                    /\ channelMembers' = channelMembers \cup {<<ops[s].user, ch>>}
                    /\ ops'[s].todo = ops[s].todo \ {ch}
         /\ JoinTeamReply(s)
            => /\ ops[s].todo = {}
               /\ lastReply'.status = 200
               /\ channelMembers' = channelMembers]_vars

\* bob has joined t1, in which alice had created the private channel c3: he is
\* a member with role member, in #general and #random, and not in c3.
C14_Witness ==
    /\ lastReq.kind = "joinTeam" /\ lastReq.user = "bob"
    /\ lastReply.op = "joinTeam" /\ lastReply.status = 200
    /\ <<"bob", "t1", "member">> \in teamMembers
    /\ "c3" \in DOMAIN channels /\ channels["c3"].isPrivate
    /\ {p[2] : p \in {q \in channelMembers : q[1] = "bob"}} = {"general", "random"}

\* C15: whenever no handler is in flight, every member of a team is a member of
\* every non-private channel of the team.
C15_PublicChannelsHoldTeam ==
    (\A s \in Slots : ops[s] = Idle)
    => \A m \in teamMembers : \A ch \in DOMAIN channels :
          (channels[ch].teamId = m[2] /\ ~channels[ch].isPrivate)
          => <<m[1], ch>> \in channelMembers

\* C21: a socket opened with a token that is missing, that jwt.verify
\* rejects, or that names no row of users is not added to the namespace, joins
\* no room, is sent nothing, starts no handler and issues no presence write;
\* and as long as a client has no connection, no step puts its socket into a
\* room, starts a handler for it or emits to it.
C21_BadTokenNoConnection ==
    [][/\ \A c \in Conns, tok \in Tokens :
            (Handshake(c, tok) /\ (tok \in {"missing", "forged"} \/ Decoded(c, tok) \notin Users))
            => /\ connected' = connected
               /\ rooms' = rooms
               /\ users' = users /\ pending' = pending /\ nWrites' = nWrites
               /\ ops' = ops
               /\ inbox' = inbox
       /\ \A c \in Conns :
            (c \notin connected /\ c \notin connected')
            => /\ \A r \in RoomKeys : c \in rooms'[r] => c \in rooms[r]
               /\ \A s \in Slots : ops'[s].origin = c => ops[s].origin = c
               /\ inbox'[c] = inbox[c]
               /\ lastReq' /= lastReq => (lastReq'.origin = c => lastReq'.kind = "handshake")]_vars

\* bob's client k2 has just been refused with a stale token while alice's k1
\* is connected and in the room of team t1; bob is offline and k2 is in no room.
C21_Witness ==
    /\ lastReq.kind = "handshake" /\ lastReq.origin = "k2" /\ lastReq.token = "stale"
    /\ connected = {"k1"}
    /\ "k1" \in rooms[TeamRoom("t1")]
    /\ \A r \in RoomKeys : "k2" \notin rooms[r]
    /\ ~users["bob"].isOnline /\ PendingOf("bob") = {}
    /\ users["alice"].isOnline

\* C22: when createTeam answers with an error, no row it has written remains:
\* the team it created is not in teams, and there is no team_members row and
\* no channel of that team, and no channel_members row of such a channel.
C22_CreateTeamAllOrNothing ==
    [][\A s \in Slots :
         (ops[s].kind = "createTeam" /\ ops'[s] = Idle /\ lastReply'.status = 500)
         => /\ ops[s].team \notin DOMAIN teams'
            /\ \A m \in teamMembers' : m[2] /= ops[s].team
            /\ TeamChannels(channels', ops[s].team) = {}
            /\ \A p \in channelMembers' : p[2] \notin ops[s].todo]_vars

C26_ManageNeedsOwnerOrAdmin ==
    [][\A s \in Slots :
         /\ (CreateChannelCreate(s) \/ InviteSave(s))
            => \/ teams[ops[s].team].ownerId = ops[s].user
               \/ <<ops[s].user, ops[s].team, "admin">> \in teamMembers
         /\ (/\ CreateChannelAdmin(s) \/ InviteAdmin(s)
             /\ <<ops[s].user, ops[s].team, "admin">> \notin teamMembers)
            => /\ lastReply'.status = 403
               /\ lastReply'.error = "Permission denied"
               /\ ops'[s] = Idle
               /\ teams' = teams /\ teamMembers' = teamMembers
               /\ channels' = channels /\ channelMembers' = channelMembers
         /\ (/\ ops[s] = Idle
             /\ ops'[s].kind \in {"createChannel", "generateInviteCode"}
             /\ teams[ops'[s].team].ownerId /= ops'[s].user)
            => /\ ops'[s].pc = "admin"
               /\ teams' = teams /\ teamMembers' = teamMembers
               /\ channels' = channels /\ channelMembers' = channelMembers]_vars

\* bob, who has joined t1 and is a plain member, has asked to create a channel
\* in it and has been refused: t1 has its two channels and its code.
C26_Witness ==
    /\ lastReq.kind = "createChannel" /\ lastReq.user = "bob" /\ lastReq.team = "t1"
    /\ lastReply.op = "createChannel" /\ lastReply.status = 403
    /\ <<"bob", "t1", "member">> \in teamMembers
    /\ DOMAIN channels = ChannelIds
    /\ teams["t1"].inviteCode = 1

\* C24: leaveTeam by a user who is not the owner removes that user's row of
\* that team and no other team_members row; it then reads all the channels of
\* the team, private or not, removes the user's row for each of them and no
\* other channel_members row, and answers 200 only when it has done so for all
\* of them.
C24_LeaveTeamCascade ==
    [][/\ \A u \in Users, t \in AllTeamIds :
            (LeaveTeamArrive(u, t) /\ teams[t].ownerId /= u)
            => /\ teamMembers' = {m \in teamMembers : ~(m[1] = u /\ m[2] = t)}
               /\ channelMembers' = channelMembers
       /\ \A s \in Slots :
            /\ LeaveTeamFind(s)
               => /\ ops'[s].todo = {ch \in DOMAIN channels : channels[ch].teamId = ops[s].team}
                  /\ teamMembers' = teamMembers /\ channelMembers' = channelMembers
            /\ LeaveTeamDestroy(s)
               => /\ teamMembers' = teamMembers
                  /\ \/ /\ ops[s].todo = {}
                        /\ channelMembers' = channelMembers
                        /\ lastReply'.status = 200
                        /\ ops'[s] = Idle
                     \/ \E ch \in ops[s].todo :
                          /\ channels[ch].teamId = ops[s].team
                          /\ channelMembers' = channelMembers \ {<<ops[s].user, ch>>}
                          /\ ops'[s].todo = ops[s].todo \ {ch}
                          /\ ops'[s].pc = "destroyEach"]_vars

\* bob has left t1: he has no row in t1 nor in its channels, the private c5
\* included; he is still admin of t2 and in its channels, and alice's rows
\* are all there.
C24_Witness ==
    /\ lastReq.kind = "leaveTeam" /\ lastReq.user = "bob" /\ lastReq.team = "t1"
    /\ lastReply.op = "leaveTeam" /\ lastReply.status = 200
    /\ \A s \in Slots : ops[s] = Idle
    /\ teamMembers = {<<"alice", "t1", "admin">>, <<"bob", "t2", "admin">>}
    /\ channelMembers = {<<"alice", "general">>, <<"alice", "random">>, <<"alice", "c5">>,
                         <<"bob", "c3">>, <<"bob", "c4">>}

\* C25: joinChannel answers a caller without a row in the channel's team 403
\* 'Access denied' and a caller who has a row in the channel 400 'Already a
\* member of this channel', in both cases adding no row; when it adds a row it
\* is the caller's row for that channel and no other.  leaveChannel removes the
\* caller's row for that channel, no other channel_members row and no
\* team_members row.
C25_JoinNeedsTeamLeaveKeepsTeam ==
    [][/\ \A s \in Slots :
            /\ (JoinChannelTeam(s)
                /\ ~\E m \in teamMembers : m[1] = ops[s].user /\ m[2] = ops[s].team)
               => /\ lastReply'.status = 403 /\ lastReply'.error = "Access denied"
                  /\ ops'[s] = Idle
                  /\ channelMembers' = channelMembers /\ teamMembers' = teamMembers
            /\ (JoinChannelExisting(s) /\ <<ops[s].user, ops[s].ch>> \in channelMembers)
               => /\ lastReply'.status = 400
                  /\ lastReply'.error = "Already a member of this channel"
                  /\ ops'[s] = Idle
                  /\ channelMembers' = channelMembers /\ teamMembers' = teamMembers
            /\ JoinChannelAdd(s)
               => /\ teamMembers' = teamMembers
                  /\ \/ channelMembers' = channelMembers /\ lastReply'.status = 500
                     \/ /\ <<ops[s].user, ops[s].ch>> \notin channelMembers
                        /\ channelMembers' = channelMembers \cup {<<ops[s].user, ops[s].ch>>}
                        /\ lastReply'.status = 200
       /\ \A u \in Users, ch \in AllChannelIds :
            LeaveChannel(u, ch)
            => /\ channelMembers' = channelMembers \ {<<u, ch>>}
               /\ teamMembers' = teamMembers
               /\ lastReply'.status = 200]_vars

\* bob, who is not in team t1, has asked to join #general and has been
\* refused; he has no row.
C25_Witness ==
    /\ lastReq.kind = "joinChannel" /\ lastReq.user = "bob" /\ lastReq.ch = "general"
    /\ lastReply.op = "joinChannel" /\ lastReply.status = 403
    /\ \A m \in teamMembers : m[1] /= "bob"
    /\ \A p \in channelMembers : p[1] /= "bob"
    /\ \A s \in Slots : ops[s] = Idle

\* C27: the page getChannelMessages answers, for page p >= 1 and limit L, is
\* made of the messages the channel holds at that time: as many as there are
\* of rank (p-1)*L+1 to p*L, the rank of a message being one more than the
\* number of later messages of the channel; and they come oldest first, the
\* i-th before the last being the one of rank (p-1)*L+1+i.
C27_PageIsRankWindowOldestFirst ==
    [][\A s \in Slots :
         (HistoryFind(s) /\ ops[s].page >= 1)
         => LET p == ops[s].page
                L == ops[s].limit
                all == {m \in messages : m.channelId = ops[s].ch}
                n == Cardinality(all)
                got == lastReply'.data.page
                rest == IF n > (p - 1) * L THEN n - (p - 1) * L ELSE 0
            IN /\ lastReply'.status = 200
               /\ Len(got) = IF rest < L THEN rest ELSE L
               /\ \A i \in 1..Len(got) :
                     /\ got[i] \in all
                     /\ Cardinality({m \in all : m.id > got[i].id})
                           = (p - 1) * L + Len(got) - i]_vars

\* alice has read page 1 with limit 2 of #general, which holds messages 1, 2
\* and 3: she has been answered with 2, then 3.
C27_Witness ==
    /\ lastReq.kind = "getChannelMessages" /\ lastReq.ch = "general"
    /\ lastReq.page = 1 /\ lastReq.limit = 2
    /\ lastReply.op = "getChannelMessages" /\ lastReply.status = 200
    /\ {m.id : m \in messages} = {1, 2, 3}
    /\ Len(lastReply.data.page) = 2
    /\ lastReply.data.page[1].id = 2
    /\ lastReply.data.page[2].id = 3

RowIn(rows, id) == CHOOSE m \in rows : m.id = id

\* C28: a row is created with editedAt unset; editedAt of a row changes only
\* in the step in which an edit of that row is written, and then it becomes
\* set; every edit that is written leaves editedAt set and the new content in
\* the row, and a rejected edit leaves the rows as they are.  So editedAt is
\* set exactly on the rows an edit has been written to, and is never cleared.
C28_EditedAtIffEdited ==
    [][/\ \A m \in messages' :
            IF \E n \in messages : n.id = m.id
            THEN m.editedAt /= RowIn(messages, m.id).editedAt
                 => /\ m.editedAt /= 0
                    /\ \E s \in Slots : EditUpdate(s) /\ ops[s].mid = m.id
            ELSE m.editedAt = 0
       /\ \A s \in Slots :
            EditUpdate(s)
            => IF ops[s].content.len >= 1 /\ ops[s].content.len <= 4000
               THEN \A m \in messages' :
                       m.id = ops[s].mid => m.editedAt /= 0 /\ m.content = ops[s].content
               ELSE messages' = messages]_vars

\* alice's message 1 has been edited to "hi there": its editedAt is set.
C28_Witness ==
    /\ lastReq.kind \in {"edit-message", "editMessage"} /\ lastReq.mid = 1
    /\ \E m \in messages : m.id = 1 /\ m.editedAt /= 0 /\ m.content = HiThere
    /\ \A s \in Slots : ops[s] = Idle

BadContent(x) == x.len = 0 \/ x.blank \/ x.len > 4000

\* C29: a post or an edit whose content is empty, is only whitespace or has
\* more than 4000 characters is answered with an error (an error event to the
\* sending socket, a status of 400 or more over REST) and writes nothing: the
\* messages and the channels, last-message pointers included, stay as they
\* are, the handler ends, and no other connection is sent anything.
C29_BadContentRejected ==
    [][\A s \in Slots :
         ((SendCreate(s) \/ EditUpdate(s)) /\ BadContent(ops[s].content))
         => /\ messages' = messages
            /\ channels' = channels
            /\ ops'[s] = Idle
            /\ IF ops[s].origin = Rest
               THEN lastReply'.status >= 400 /\ inbox' = inbox
               ELSE \A c \in Conns :
                      IF c = ops[s].origin
                      THEN /\ Len(inbox'[c]) = Len(inbox[c]) + 1
                           /\ inbox'[c][Len(inbox'[c])].type = "error"
                      ELSE inbox'[c] = inbox[c]]_vars

\* C30: when no handler is in flight, the lastMessageId of a channel that has
\* messages is the id of the latest of them (ids are ranks of creation).
C30_LastMessageIsLatest ==
    (\A s \in Slots : ops[s] = Idle)
    => \A ch \in ChannelIds :
          \A m \in messages : m.channelId = ch => m.id <= channels[ch].lastMessageId


\* C31: an edit or a delete (socket or REST) by the sender of a message who
\* has no channel_members row for the message's channel (any more) is rejected
\* on arrival: no handler is left in flight that could change the message or
\* broadcast, and the tables stay as they are.
C31_NonMemberSenderRejected ==
    [][\A o \in Origins, u \in Users, id \in MsgIdInputs :
         (/\ FindOwn(id, u) /= NullMsg
          /\ ~IsChannelMember(u, FindOwn(id, u).channelId)
          /\ \/ \E x \in EditInputs : EditArrive(o, u, id, x)
             \/ DeleteArrive(o, u, id))
         => /\ ops' = ops
            /\ messages' = messages]_vars


\* C32: send-message persists and broadcasts as one unit.  When a handler of
\* send-message ends by answering its caller with an error event, no row of
\* its request is in the table and the channel's lastMessageId is not the id
\* of such a row; when a handler that has created a row ends, it ends by
\* broadcasting new-message with that row to the channel's room.
C32_PersistAndBroadcastAtomic ==
    [][\A s \in Slots :
         (ops[s].kind = "send-message" /\ ops'[s] = Idle)
         => /\ (\E c \in Conns : Len(inbox'[c]) = Len(inbox[c]) + 1
                                 /\ inbox'[c][Len(inbox'[c])].type = "error")
               => /\ ~\E m \in messages' : m.id = ops[s].mid
                  /\ channels'[ops[s].ch].lastMessageId /= ops[s].mid
                     \/ ops[s].mid = NoMsgId
            /\ ops[s].mid /= NoMsgId
               => /\ ops[s].got.msg.id = ops[s].mid
                  /\ EmitToRoom(ChannelRoom(ops[s].ch),
                                Event("new-message", ops[s].got, ""))]_vars


\* C33: the lastMessageId of a channel never names a message that is not in
\* the table, and when no handler is in flight it names the latest message
\* the channel still has (ids are ranks of creation), or none if the channel
\* has no message.
C33_PointerIsLatestPresent ==
    /\ ~Dangling(channels, messages)
    /\ (\A s \in Slots : ops[s] = Idle)
       => \A ch \in ChannelIds :
             IF \E m \in messages : m.channelId = ch
             THEN /\ Row(channels[ch].lastMessageId).channelId = ch
                  /\ \A m \in messages :
                        m.channelId = ch => m.id <= channels[ch].lastMessageId
             ELSE channels[ch].lastMessageId = NoMsgId


\* C34: whenever a handler broadcasts new-message or message-edited, the
\* payload it emits is a message (not null) and the row of that message is in
\* the table at that moment.
C34_NoEventForRemovedMessage ==
    [][\A s \in Slots :
         (SendEmit(s) \/ EditEmit(s))
         => /\ ops[s].got.msg /= NullMsg
            /\ Row(ops[s].mid) /= NullMsg]_vars


\* C35: every member of a channel is a member of the channel's team.  Stated
\* for the states in which no handler is in flight (leaveTeam removes the
\* team_members row before the channel_members rows, so that between its own
\* statements the rows of the leaving user are still there).
C35_ChannelMembersAreTeamMembers ==
    (\A s \in Slots : ops[s] = Idle)
    => \A cm \in channelMembers :
          cm[2] \in DOMAIN channels
          => \E tm \in teamMembers : tm[1] = cm[1] /\ tm[2] = channels[cm[2]].teamId


\* C36: message_reactions never holds two rows of one (user, message, emoji)
\* triple.  The table is a set of triples here, so that a second row would
\* show as an insert that is accepted while the triple is in the table:
\* MessageReaction.create of a handler that found no row goes through only if
\* the table holds no row of the triple at that moment, and then adds exactly
\* that row; this holds also for requests for one triple that run at the
\* same time.
C36_OneRowPerTriple ==
    [][\A s \in Slots :
         (ToggleWrite(s) /\ ops[s].todo = {} /\ ops'[s].pc = "populate")
         => /\ <<ops[s].user, ops[s].mid, ops[s].emoji>> \notin reactions
            /\ reactions' = reactions \cup {<<ops[s].user, ops[s].mid, ops[s].emoji>>}]_vars

\* Two requests of bob for one triple have both found no row; the insert of
\* one has gone through and has been answered, the other is about to insert.
C36_Witness ==
    \E s \in Slots :
       /\ ops[s].kind = "addReaction" /\ ops[s].pc = "write" /\ ops[s].todo = {}
       /\ <<ops[s].user, ops[s].mid, ops[s].emoji>> \in reactions
       /\ \A t \in Slots \ {s} : ops[t] = Idle
       /\ lastReply.op = "addReaction" /\ lastReply.status = 200
       /\ lastReply.user = ops[s].user /\ lastReply.target = ops[s].mid


\* C37: toggles of one triple take effect one after another.  Every request
\* that gets past its write is answered 200, so that "present afterwards iff
\* present before XOR an odd number of successes" comes to this: the write of
\* every request that succeeds flips the presence of its triple, and the
\* presence of a triple changes in no other step.
C37_TogglesSerialize ==
    [][/\ \A s \in Slots :
            (ToggleWrite(s) /\ ops'[s].pc = "populate")
            => (<<ops[s].user, ops[s].mid, ops[s].emoji>> \in reactions')
               = ~(<<ops[s].user, ops[s].mid, ops[s].emoji>> \in reactions)
       /\ \A r \in (reactions \ reactions') \cup (reactions' \ reactions) :
            \E s \in Slots :
               /\ ToggleWrite(s) /\ ops'[s].pc = "populate"
               /\ r = <<ops[s].user, ops[s].mid, ops[s].emoji>>]_vars


\* C38: a join-teams request that names a team of which the connection's user
\* has no team_members row adds no subscription to that team's room.
C38_JoinTeamsNeedsMembership ==
    [][\A c \in Conns, ts \in (SUBSET TeamIdInputs) \ {{}} :
         JoinTeams(c, ts)
         => \A t \in ts \cap DOMAIN teams :
               ~IsTeamMember(TokenUser[c], t)
               => rooms'[TeamRoom(t)] = rooms[TeamRoom(t)]]_vars


C40_ReadsNeedMembership ==
    [][/\ \A u \in Users, ch \in ChannelIds :
            (\/ \E page \in 0..MaxPage, limit \in 1..MaxLimit :
                   HistoryArrive(u, ch, page, limit)
             \/ GetChannelArrive(u, ch))
            => IF <<u, ch>> \in channelMembers
               THEN /\ lastReply' = lastReply
                    /\ \E s \in Slots :
                          /\ ops[s] = Idle
                          /\ ops'[s].user = u /\ ops'[s].ch = ch /\ ops'[s].pc = "find"
               ELSE /\ ops' = ops
                    /\ lastReply'.user = u
                    /\ lastReply'.status \in {403, 404}
                    /\ lastReply'.data = NoPayload
       /\ (/\ lastReply' /= lastReply
           /\ lastReply'.op \in {"getChannelMessages", "getChannel"}
           /\ lastReply'.status = 200)
          => \E s \in Slots :
                /\ ops[s].kind = lastReply'.op /\ ops[s].pc = "find"
                /\ ops[s].user = lastReply'.user
                /\ HistoryFind(s) \/ GetChannelFind(s)]_vars

\* bob, a member of #general at the start, has left team t1, leaveTeam has
\* removed his rows and answered, and his getChannel for #general has been
\* answered 404.
C40_Witness ==
    /\ \A m \in teamMembers : m[1] /= "bob"
    /\ \A p \in channelMembers : p[1] /= "bob"
    /\ lastReq.kind = "getChannel" /\ lastReq.user = "bob" /\ lastReq.ch = "general"
    /\ lastReply.op = "getChannel" /\ lastReply.user = "bob" /\ lastReply.status = 404
    /\ \A s \in Slots : ops[s] = Idle

====
